---- MODULE Spec2Model ----
(***************************************************************************)
(* Verification model of the Image Assurance operator pieces:              *)
(*   - configsync.syncer        (src/unnamed/part_001), the periodic sync  *)
(*     actor: one goroutine running run(), drivers calling                 *)
(*     StartPeriodicSync() and Error();                                    *)
(*   - ReconcileImageAssurance.Reconcile                                   *)
(*     (src/pkg/controller/imageassurance/imageassurance_controller.go),   *)
(*     one reconciliation attempt per step, against a cluster store that   *)
(*     an environment changes between attempts.                            *)
(***************************************************************************)
EXTENDS Integers, Sequences, FiniteSets, TLC

(***************************************************************************)
(* Bounds of the model.                                                    *)
(***************************************************************************)
\* The ticker channel may be closed by its owner at most this many times,
\* so at most MaxTickerCloses + 1 tickers are ever created.
MaxTickerCloses == 1
\* Number of events the environment causes during the reconciler's run:
\* writes to the cluster store and API calls that fail.
MaxEnvChanges == 1

(***************************************************************************)
(* Program constants.                                                      *)
(***************************************************************************)
\* make(chan interface{}, 1)
ApiChanCap == 1
\* reconcile.Result{RequeueAfter: ...}, in seconds
RequeueMigratorCreate == 1
RequeueComponentsUpErr == 20
RequeueNotAvailable == 30
Drivers == {"d1", "d2"}

VARIABLES
    \* ---- syncer (src/unnamed/part_001) ----
    ctxDone,          \* s.ctx has been cancelled
    apiChan,          \* contents of s.apiChan (buffered, capacity 1)
    apiChanClosed,    \* close(s.apiChan) has run
    doneClosed,       \* close(s.done) has run
    pc,               \* position of the run() goroutine
    ticker,           \* local "ticker" of run(): 0 is nil, n > 0 the n-th ticker created
    tickerCh,         \* local "tickerCh" of run(): 0 is nil
    tickPending,      \* a tick is buffered in the current ticker's channel
    tickerChClosed,   \* the current ticker's channel has been closed
    tickerCreations,  \* number of calls of s.tickerCreator
    tickerStops,      \* number of calls of ticker.Stop()
    tickerCloses,     \* number of times a ticker channel was closed
    err,              \* local "err" of run()
    lastSync,         \* history: result of the most recently completed syncConfigMap
    waiting,          \* drivers blocked in Error() on <-errChan
    lastReply,        \* history: the last value sent on an errChan, and to whom
    panicked,         \* a driver sent on the closed apiChan (Go panics)
    configMap,        \* the image assurance configuration ConfigMap in the store
    \* ---- reconciler (imageassurance_controller.go) ----
    store,            \* the cluster objects Reconcile reads and writes
    status,           \* the StatusManager: degraded reason, availability
    last,             \* record of the most recent Reconcile attempt, if the store
                      \* was not changed by the environment since
    envChanges        \* number of environment events so far

syncVars == <<ctxDone, apiChan, apiChanClosed, doneClosed, pc, ticker, tickerCh,
              tickPending, tickerChClosed, tickerCreations, tickerStops, tickerCloses,
              err, lastSync, waiting, lastReply, panicked, configMap>>
recVars == <<store, status, last, envChanges>>
vars == <<syncVars, recVars>>

(***************************************************************************)
(* The periodic sync actor.                                                *)
(***************************************************************************)
NoErr == "nil"
NoSync == "none"
Absent == "absent"

startSyncRequest == [type |-> "startSyncRequest"]
getErrRequest(d) == [type |-> "getErrRequest", errChan |-> d]

OrgID == "org1"
NoConfigMap == [notFound |-> TRUE]
BaseConfigMap == [organizationID |-> OrgID, other |-> "x"]

\* strconv.FormatBool
FormatBool(b) == IF b THEN "true" ELSE "false"

\* Variant of syncConfigMap that writes the setting as "1" or "0".
syncConfigMap_RawBool(cm, getOK, apiToken, cert, org, updOK) ==
    IF cm = NoConfigMap \/ ~getOK \/ apiToken \in {"err", ""} \/ cert = "err"
    THEN [err |-> "failed", cm |-> cm, queried |-> FALSE, askedOrg |-> ""]
    ELSE IF ~org.ok \/ ~updOK
    THEN [err |-> "failed", cm |-> cm, queried |-> TRUE, askedOrg |-> cm.organizationID]
    ELSE [err |-> NoErr,
          cm |-> [k \in DOMAIN cm \cup {"runtimeViewEnabled"} |->
                    IF k = "runtimeViewEnabled"
                    THEN (IF org.runtimeViewEnabled THEN "1" ELSE "0")
                    ELSE cm[k]],
          queried |-> TRUE, askedOrg |-> cm.organizationID]

\* Variant of syncConfigMap that takes an empty token for a usable one.
syncConfigMap_AcceptsEmptyToken(cm, getOK, apiToken, cert, org, updOK) ==
    IF cm = NoConfigMap \/ ~getOK
    THEN [err |-> "failed to retrieve image assurance configuration", cm |-> cm,
          queried |-> FALSE, askedOrg |-> ""]
    ELSE IF apiToken = "err"
    THEN [err |-> "failed to retrieve API token", cm |-> cm,
          queried |-> FALSE, askedOrg |-> ""]
    ELSE IF cert = "err"
    THEN [err |-> "failed to get Image Assurance API certificate", cm |-> cm,
          queried |-> FALSE, askedOrg |-> ""]
    ELSE IF ~org.ok
    THEN [err |-> "failed to get organization settings", cm |-> cm,
          queried |-> TRUE, askedOrg |-> cm.organizationID]
    ELSE IF ~updOK
    THEN [err |-> "failed to update Image Assurance configuration", cm |-> cm,
          queried |-> TRUE, askedOrg |-> cm.organizationID]
    ELSE [err |-> NoErr,
          cm |-> [k \in DOMAIN cm \cup {"runtimeViewEnabled"} |->
                    IF k = "runtimeViewEnabled" THEN FormatBool(org.runtimeViewEnabled) ELSE cm[k]],
          queried |-> TRUE, askedOrg |-> cm.organizationID]

\* One synchronization unit.  getOK: the ConfigMap Get succeeds; apiToken:
\* "err", "" or a token; cert: "err" or the bundle; org: the answer of
\* GetOrganization (ok is FALSE for an error, else runtimeViewEnabled is
\* org.Settings.RuntimeViewEnabled); updOK: the Update succeeds.
\* The result is the returned error, the ConfigMap as stored afterwards,
\* whether the remote service was queried and with which organization id.
syncConfigMap(cm, getOK, apiToken, cert, org, updOK) ==
    IF cm = NoConfigMap \/ ~getOK
    THEN [err |-> "failed to retrieve image assurance configuration", cm |-> cm,
          queried |-> FALSE, askedOrg |-> ""]
    ELSE IF apiToken = "err"
    THEN [err |-> "failed to retrieve API token", cm |-> cm,
          queried |-> FALSE, askedOrg |-> ""]
    ELSE IF apiToken = ""
    THEN [err |-> "API token not available", cm |-> cm,
          queried |-> FALSE, askedOrg |-> ""]
    ELSE IF cert = "err"
    THEN [err |-> "failed to get Image Assurance API certificate", cm |-> cm,
          queried |-> FALSE, askedOrg |-> ""]
    ELSE IF ~org.ok
    THEN [err |-> "failed to get organization settings", cm |-> cm,
          queried |-> TRUE, askedOrg |-> cm.organizationID]
    ELSE IF ~updOK
    THEN [err |-> "failed to update Image Assurance configuration", cm |-> cm,
          queried |-> TRUE, askedOrg |-> cm.organizationID]
    ELSE [err |-> NoErr,
          cm |-> [k \in DOMAIN cm \cup {"runtimeViewEnabled"} |->
                    IF k = "runtimeViewEnabled" THEN FormatBool(org.runtimeViewEnabled) ELSE cm[k]],
          queried |-> TRUE, askedOrg |-> cm.organizationID]

NewSyncer ==
    /\ ctxDone = FALSE
    /\ apiChan = <<>>
    /\ apiChanClosed = FALSE
    /\ doneClosed = FALSE
    /\ pc = "select"
    /\ ticker = 0
    /\ tickerCh = 0
    /\ tickPending = FALSE
    /\ tickerChClosed = FALSE
    /\ tickerCreations = 0
    /\ tickerStops = 0
    /\ tickerCloses = 0
    /\ err = NoErr
    /\ lastSync = NoSync
    /\ waiting = {}
    /\ lastReply = [to |-> "nobody", val |-> NoErr]
    /\ panicked = FALSE
    /\ configMap \in {NoConfigMap, BaseConfigMap}

\* Inputs of one synchronization unit: what the store and the remote service
\* answer at the time of the call.
TokenAnswers == {"err", "", "token"}
CertAnswers == {"err", "pem"}
OrgAnswers == {[ok |-> FALSE, runtimeViewEnabled |-> FALSE],
               [ok |-> TRUE, runtimeViewEnabled |-> FALSE],
               [ok |-> TRUE, runtimeViewEnabled |-> TRUE]}

\* The controller goroutines that use the Syncer interface.
\* Variant of StartPeriodicSync that sends without the default case of the
\* select, and so waits for room in the mailbox.
StartPeriodicSync_Blocking(d) ==
    /\ ~panicked
    /\ d \notin waiting
    /\ IF apiChanClosed
       THEN /\ panicked' = TRUE
            /\ UNCHANGED apiChan
       ELSE /\ Len(apiChan) < ApiChanCap
            /\ apiChan' = Append(apiChan, startSyncRequest)
            /\ UNCHANGED panicked
    /\ UNCHANGED <<ctxDone, apiChanClosed, doneClosed, pc, ticker, tickerCh, tickPending,
                   tickerChClosed, tickerCreations, tickerStops, tickerCloses, err,
                   lastSync, waiting, lastReply, configMap>>
    /\ UNCHANGED recVars

\* Variant of StartPeriodicSync that does nothing once the mailbox is closed.
StartPeriodicSync_SilentOnClosed(d) ==
    /\ ~panicked
    /\ d \notin waiting
    /\ apiChan' = IF ~apiChanClosed /\ Len(apiChan) < ApiChanCap
                  THEN Append(apiChan, startSyncRequest)
                  ELSE apiChan
    /\ UNCHANGED <<ctxDone, apiChanClosed, doneClosed, pc, ticker, tickerCh, tickPending,
                   tickerChClosed, tickerCreations, tickerStops, tickerCloses, err,
                   lastSync, waiting, lastReply, panicked, configMap>>
    /\ UNCHANGED recVars

\* func (s *syncer) StartPeriodicSync(): a non-blocking send; a send on a
\* closed channel panics.
StartPeriodicSync(d) ==
    /\ ~panicked
    /\ d \notin waiting
    /\ IF apiChanClosed
       THEN /\ panicked' = TRUE
            /\ UNCHANGED apiChan
       ELSE /\ apiChan' = IF Len(apiChan) < ApiChanCap
                          THEN Append(apiChan, startSyncRequest)
                          ELSE apiChan
            /\ UNCHANGED panicked
    /\ UNCHANGED <<ctxDone, apiChanClosed, doneClosed, pc, ticker, tickerCh, tickPending,
                   tickerChClosed, tickerCreations, tickerStops, tickerCloses, err,
                   lastSync, waiting, lastReply, configMap>>
    /\ UNCHANGED recVars

\* func (s *syncer) Error(): a blocking send of a getErrRequest, then a
\* receive on its errChan.  The step is the send; the driver then waits.
ErrorCall(d) ==
    /\ ~panicked
    /\ d \notin waiting
    /\ IF apiChanClosed
       THEN /\ panicked' = TRUE
            /\ UNCHANGED <<apiChan, waiting>>
       ELSE /\ Len(apiChan) < ApiChanCap
            /\ apiChan' = Append(apiChan, getErrRequest(d))
            /\ waiting' = waiting \cup {d}
            /\ UNCHANGED panicked
    /\ UNCHANGED <<ctxDone, apiChanClosed, doneClosed, pc, ticker, tickerCh, tickPending,
                   tickerChClosed, tickerCreations, tickerStops, tickerCloses, err,
                   lastSync, lastReply, configMap>>
    /\ UNCHANGED recVars

\* Variant of ApiChanCase that creates the ticker when it receives the start
\* signal, before the synchronization.
ApiChanCase_ArmsFirst ==
    /\ ~panicked
    /\ pc = "select"
    /\ apiChan # <<>>
    /\ LET req == Head(apiChan) IN
       /\ apiChan' = Tail(apiChan)
       /\ IF req.type = "startSyncRequest"
          THEN /\ pc' = IF ticker # 0 THEN "select" ELSE "syncStart"
               /\ IF ticker = 0
                  THEN /\ tickerCreations' = tickerCreations + 1
                       /\ ticker' = tickerCreations + 1
                       /\ tickerCh' = tickerCreations + 1
                       /\ tickPending' = FALSE
                       /\ tickerChClosed' = FALSE
                  ELSE UNCHANGED <<tickerCreations, ticker, tickerCh, tickPending,
                                   tickerChClosed>>
               /\ UNCHANGED <<waiting, lastReply>>
          ELSE /\ lastReply' = [to |-> req.errChan, val |-> err]
               /\ waiting' = waiting \ {req.errChan}
               /\ UNCHANGED <<pc, tickerCreations, ticker, tickerCh, tickPending,
                              tickerChClosed>>
    /\ UNCHANGED <<ctxDone, apiChanClosed, doneClosed, tickerStops, tickerCloses, err,
                   lastSync, panicked, configMap>>
    /\ UNCHANGED recVars

\* Variant of ApiChanCase that synchronizes on every start signal, without
\* the test "ticker != nil".
ApiChanCase_AlwaysSyncs ==
    /\ ~panicked
    /\ pc = "select"
    /\ apiChan # <<>>
    /\ LET req == Head(apiChan) IN
       /\ apiChan' = Tail(apiChan)
       /\ IF req.type = "startSyncRequest"
          THEN /\ pc' = "syncStart"
               /\ UNCHANGED <<waiting, lastReply>>
          ELSE /\ lastReply' = [to |-> req.errChan, val |-> err]
               /\ waiting' = waiting \ {req.errChan}
               /\ UNCHANGED pc
    /\ UNCHANGED <<ctxDone, apiChanClosed, doneClosed, ticker, tickerCh, tickPending,
                   tickerChClosed, tickerCreations, tickerStops, tickerCloses, err,
                   lastSync, panicked, configMap>>
    /\ UNCHANGED recVars

\* Variant of ApiChanCase that synchronizes when it serves an error query.
ApiChanCase_ErrQuerySyncs ==
    /\ ~panicked
    /\ pc = "select"
    /\ apiChan # <<>>
    /\ LET req == Head(apiChan) IN
       /\ apiChan' = Tail(apiChan)
       /\ IF req.type = "startSyncRequest"
          THEN /\ pc' = IF ticker # 0 THEN "select" ELSE "syncStart"
               /\ UNCHANGED <<waiting, lastReply>>
          ELSE /\ lastReply' = [to |-> req.errChan, val |-> err]
               /\ waiting' = waiting \ {req.errChan}
               /\ pc' = "syncTick"
    /\ UNCHANGED <<ctxDone, apiChanClosed, doneClosed, ticker, tickerCh, tickPending,
                   tickerChClosed, tickerCreations, tickerStops, tickerCloses, err,
                   lastSync, panicked, configMap>>
    /\ UNCHANGED recVars

\* Variant of ApiChanCase in which requests are received by a second
\* goroutine while a synchronization is running.
ApiChanCase_DuringSync ==
    /\ ~panicked
    /\ pc \in {"select", "syncStart", "syncTick"}
    /\ apiChan # <<>>
    /\ LET req == Head(apiChan) IN
       /\ apiChan' = Tail(apiChan)
       /\ IF req.type = "startSyncRequest"
          THEN /\ pc' = IF ticker # 0 THEN pc ELSE "syncStart"
               /\ UNCHANGED <<waiting, lastReply>>
          ELSE /\ lastReply' = [to |-> req.errChan, val |-> err]
               /\ waiting' = waiting \ {req.errChan}
               /\ UNCHANGED pc
    /\ UNCHANGED <<ctxDone, apiChanClosed, doneClosed, ticker, tickerCh, tickPending,
                   tickerChClosed, tickerCreations, tickerStops, tickerCloses, err,
                   lastSync, panicked, configMap>>
    /\ UNCHANGED recVars

\* run(): case req := <-s.apiChan
ApiChanCase ==
    /\ ~panicked
    /\ pc = "select"
    /\ apiChan # <<>>
    /\ LET req == Head(apiChan) IN
       /\ apiChan' = Tail(apiChan)
       /\ IF req.type = "startSyncRequest"
          THEN /\ pc' = IF ticker # 0 THEN "select" ELSE "syncStart"
               /\ UNCHANGED <<waiting, lastReply>>
          ELSE /\ lastReply' = [to |-> req.errChan, val |-> err]
               /\ waiting' = waiting \ {req.errChan}
               /\ UNCHANGED pc
    /\ UNCHANGED <<ctxDone, apiChanClosed, doneClosed, ticker, tickerCh, tickPending,
                   tickerChClosed, tickerCreations, tickerStops, tickerCloses, err,
                   lastSync, panicked, configMap>>
    /\ UNCHANGED recVars

\* run(): err = s.syncConfigMap() returns in the startSyncRequest case, then
\* the ticker is created.
StartSyncReturn ==
    /\ ~panicked
    /\ pc = "syncStart"
    /\ \E getOK \in BOOLEAN, tok \in TokenAnswers, cert \in CertAnswers,
          org \in OrgAnswers, updOK \in BOOLEAN :
         LET r == syncConfigMap(configMap, getOK, tok, cert, org, updOK) IN
         /\ err' = r.err
         /\ lastSync' = r.err
         /\ configMap' = r.cm
    /\ IF ticker = 0
       THEN /\ tickerCreations' = tickerCreations + 1
            /\ ticker' = tickerCreations + 1
            /\ tickerCh' = tickerCreations + 1
            /\ tickPending' = FALSE
            /\ tickerChClosed' = FALSE
       ELSE UNCHANGED <<tickerCreations, ticker, tickerCh, tickPending, tickerChClosed>>
    /\ pc' = "select"
    /\ UNCHANGED <<ctxDone, apiChan, apiChanClosed, doneClosed, tickerStops, tickerCloses,
                   waiting, lastReply, panicked>>
    /\ UNCHANGED recVars

\* Variant of TickerChCase that forgets ticker.Stop() when the channel is closed.
TickerChCase_NoStop ==
    /\ ~panicked
    /\ pc = "select"
    /\ tickerCh # 0
    /\ tickPending \/ tickerChClosed
    /\ IF tickPending
       THEN /\ tickPending' = FALSE
            /\ pc' = "syncTick"
            /\ UNCHANGED <<ticker, tickerCh, tickerChClosed>>
       ELSE /\ ticker' = 0
            /\ tickerCh' = 0
            /\ tickerChClosed' = FALSE
            /\ UNCHANGED <<tickPending, pc>>
    /\ UNCHANGED <<ctxDone, apiChan, apiChanClosed, doneClosed, tickerCreations, tickerStops,
                   tickerCloses, err, lastSync, waiting, lastReply, panicked, configMap>>
    /\ UNCHANGED recVars

\* Variant of TickerChCase that drops the ticker when it receives a tick.
TickerChCase_DropsTickerOnTick ==
    /\ ~panicked
    /\ pc = "select"
    /\ tickerCh # 0
    /\ tickPending \/ tickerChClosed
    /\ IF tickPending
       THEN /\ tickPending' = FALSE
            /\ pc' = "syncTick"
            /\ ticker' = 0
            /\ tickerCh' = 0
            /\ UNCHANGED <<tickerChClosed, tickerStops>>
       ELSE /\ tickerStops' = IF ticker # 0 THEN tickerStops + 1 ELSE tickerStops
            /\ ticker' = 0
            /\ tickerCh' = 0
            /\ tickerChClosed' = FALSE
            /\ UNCHANGED <<tickPending, pc>>
    /\ UNCHANGED <<ctxDone, apiChan, apiChanClosed, doneClosed, tickerCreations,
                   tickerCloses, err, lastSync, waiting, lastReply, panicked, configMap>>
    /\ UNCHANGED recVars

\* run(): case _, ok := <-tickerCh
TickerChCase ==
    /\ ~panicked
    /\ pc = "select"
    /\ tickerCh # 0
    /\ tickPending \/ tickerChClosed
    /\ IF tickPending
       THEN /\ tickPending' = FALSE
            /\ pc' = "syncTick"
            /\ UNCHANGED <<ticker, tickerCh, tickerChClosed, tickerStops>>
       ELSE /\ tickerStops' = IF ticker # 0 THEN tickerStops + 1 ELSE tickerStops
            /\ ticker' = 0
            /\ tickerCh' = 0
            /\ tickerChClosed' = FALSE
            /\ UNCHANGED <<tickPending, pc>>
    /\ UNCHANGED <<ctxDone, apiChan, apiChanClosed, doneClosed, tickerCreations,
                   tickerCloses, err, lastSync, waiting, lastReply, panicked, configMap>>
    /\ UNCHANGED recVars

\* Variant of TickSyncReturn that drops the result instead of assigning err.
TickSyncReturn_DropsErr ==
    /\ ~panicked
    /\ pc = "syncTick"
    /\ \E getOK \in BOOLEAN, tok \in TokenAnswers, cert \in CertAnswers,
          org \in OrgAnswers, updOK \in BOOLEAN :
         LET r == syncConfigMap(configMap, getOK, tok, cert, org, updOK) IN
         /\ lastSync' = r.err
         /\ configMap' = r.cm
    /\ pc' = "select"
    /\ UNCHANGED <<ctxDone, apiChan, apiChanClosed, doneClosed, ticker, tickerCh,
                   tickPending, tickerChClosed, tickerCreations, tickerStops,
                   tickerCloses, err, waiting, lastReply, panicked>>
    /\ UNCHANGED recVars

\* Variant of TickSyncReturn that leaves the loop when the synchronization
\* fails.
TickSyncReturn_StopsOnFailure ==
    /\ ~panicked
    /\ pc = "syncTick"
    /\ \E getOK \in BOOLEAN, tok \in TokenAnswers, cert \in CertAnswers,
          org \in OrgAnswers, updOK \in BOOLEAN :
         LET r == syncConfigMap(configMap, getOK, tok, cert, org, updOK) IN
         /\ err' = r.err
         /\ lastSync' = r.err
         /\ configMap' = r.cm
         /\ pc' = IF r.err = NoErr THEN "select" ELSE "closeDone"
    /\ UNCHANGED <<ctxDone, apiChan, apiChanClosed, doneClosed, ticker, tickerCh,
                   tickPending, tickerChClosed, tickerCreations, tickerStops,
                   tickerCloses, waiting, lastReply, panicked>>
    /\ UNCHANGED recVars

\* run(): err = s.syncConfigMap() returns in the ticker case.
TickSyncReturn ==
    /\ ~panicked
    /\ pc = "syncTick"
    /\ \E getOK \in BOOLEAN, tok \in TokenAnswers, cert \in CertAnswers,
          org \in OrgAnswers, updOK \in BOOLEAN :
         LET r == syncConfigMap(configMap, getOK, tok, cert, org, updOK) IN
         /\ err' = r.err
         /\ lastSync' = r.err
         /\ configMap' = r.cm
    /\ pc' = "select"
    /\ UNCHANGED <<ctxDone, apiChan, apiChanClosed, doneClosed, ticker, tickerCh,
                   tickPending, tickerChClosed, tickerCreations, tickerStops,
                   tickerCloses, waiting, lastReply, panicked>>
    /\ UNCHANGED recVars

\* run(): case <-s.ctx.Done(): return
CtxDoneCase ==
    /\ ~panicked
    /\ pc = "select"
    /\ ctxDone
    /\ pc' = "closeDone"
    /\ UNCHANGED <<ctxDone, apiChan, apiChanClosed, doneClosed, ticker, tickerCh,
                   tickPending, tickerChClosed, tickerCreations, tickerStops,
                   tickerCloses, err, lastSync, waiting, lastReply, panicked, configMap>>
    /\ UNCHANGED recVars

\* The deferred calls of run(), in the order Go runs them (last deferred
\* first): close(s.done), close(s.apiChan), then ticker.Stop().
\* Variant of DeferCloseDone in which "defer close(s.done)" is missing.
DeferCloseDone_Missing ==
    /\ ~panicked
    /\ pc = "closeDone"
    /\ pc' = "closeApiChan"
    /\ UNCHANGED <<ctxDone, apiChan, apiChanClosed, doneClosed, ticker, tickerCh,
                   tickPending, tickerChClosed, tickerCreations, tickerStops,
                   tickerCloses, err, lastSync, waiting, lastReply, panicked, configMap>>
    /\ UNCHANGED recVars

DeferCloseDone ==
    /\ ~panicked
    /\ pc = "closeDone"
    /\ doneClosed' = TRUE
    /\ pc' = "closeApiChan"
    /\ UNCHANGED <<ctxDone, apiChan, apiChanClosed, ticker, tickerCh,
                   tickPending, tickerChClosed, tickerCreations, tickerStops,
                   tickerCloses, err, lastSync, waiting, lastReply, panicked, configMap>>
    /\ UNCHANGED recVars

DeferCloseApiChan ==
    /\ ~panicked
    /\ pc = "closeApiChan"
    /\ apiChanClosed' = TRUE
    /\ pc' = "stopTicker"
    /\ UNCHANGED <<ctxDone, apiChan, doneClosed, ticker, tickerCh,
                   tickPending, tickerChClosed, tickerCreations, tickerStops,
                   tickerCloses, err, lastSync, waiting, lastReply, panicked, configMap>>
    /\ UNCHANGED recVars

DeferStopTicker ==
    /\ ~panicked
    /\ pc = "stopTicker"
    /\ tickerStops' = IF ticker # 0 THEN tickerStops + 1 ELSE tickerStops
    /\ pc' = "returned"
    /\ UNCHANGED <<ctxDone, apiChan, apiChanClosed, doneClosed, ticker, tickerCh,
                   tickPending, tickerChClosed, tickerCreations,
                   tickerCloses, err, lastSync, waiting, lastReply, panicked, configMap>>
    /\ UNCHANGED recVars

\* The environment of the actor: the ticker delivers a tick (its channel
\* holds one), the ticker's owner closes its channel, the context is
\* cancelled, the configuration ConfigMap is created.
Tick ==
    /\ ~panicked
    /\ tickerCh # 0
    /\ pc # "returned"
    /\ ~tickPending
    /\ ~tickerChClosed
    /\ tickPending' = TRUE
    /\ UNCHANGED <<ctxDone, apiChan, apiChanClosed, doneClosed, pc, ticker, tickerCh,
                   tickerChClosed, tickerCreations, tickerStops,
                   tickerCloses, err, lastSync, waiting, lastReply, panicked, configMap>>
    /\ UNCHANGED recVars

TickerChClose ==
    /\ ~panicked
    /\ tickerCh # 0
    /\ ~tickerChClosed
    /\ tickerCloses < MaxTickerCloses
    /\ tickerChClosed' = TRUE
    /\ tickerCloses' = tickerCloses + 1
    /\ UNCHANGED <<ctxDone, apiChan, apiChanClosed, doneClosed, pc, ticker, tickerCh,
                   tickPending, tickerCreations, tickerStops,
                   err, lastSync, waiting, lastReply, panicked, configMap>>
    /\ UNCHANGED recVars

Cancel ==
    /\ ~panicked
    /\ ~ctxDone
    /\ ctxDone' = TRUE
    /\ UNCHANGED <<apiChan, apiChanClosed, doneClosed, pc, ticker, tickerCh,
                   tickPending, tickerChClosed, tickerCreations, tickerStops,
                   tickerCloses, err, lastSync, waiting, lastReply, panicked, configMap>>
    /\ UNCHANGED recVars

ConfigMapCreate ==
    /\ ~panicked
    /\ configMap = NoConfigMap
    /\ configMap' = BaseConfigMap
    /\ UNCHANGED <<ctxDone, apiChan, apiChanClosed, doneClosed, pc, ticker, tickerCh,
                   tickPending, tickerChClosed, tickerCreations, tickerStops,
                   tickerCloses, err, lastSync, waiting, lastReply, panicked>>
    /\ UNCHANGED recVars

SyncNext ==
    \/ \E d \in Drivers : StartPeriodicSync(d)
    \/ \E d \in Drivers : ErrorCall(d)
    \/ ApiChanCase
    \/ StartSyncReturn
    \/ TickerChCase
    \/ TickSyncReturn
    \/ CtxDoneCase
    \/ DeferCloseDone
    \/ DeferCloseApiChan
    \/ DeferStopTicker
    \/ Tick
    \/ TickerChClose
    \/ Cancel
    \/ ConfigMapCreate

(***************************************************************************)
(* The reconciler: the cluster store.                                      *)
(***************************************************************************)
\* A value of a Data map: "missing" when the key is not in the map, ""
\* when it is there and empty, else the bytes.
Missing == "missing"
Has(data, key) == data[key] # Missing /\ data[key] # ""

PGConfigKeys == <<"PGConfigHostKey", "PGConfigNameKey", "PGConfigPortKey",
                  "PGConfigOrgIDKey", "PGConfigOrgNameKey">>
PGUserKeys == <<"PGUserSecretKey", "PGUserPassKey">>
PGCertKeys == <<"PGServerCAKey", "PGClientKeyKey", "PGClientCertKey">>
TenantKeys == <<"EncryptionKeyName">>

Range(seq) == {seq[i] : i \in 1..Len(seq)}
NotFound(keys) == [found |-> FALSE, data |-> [k \in Range(keys) |-> Missing]]
Full(keys) == [found |-> TRUE, data |-> [k \in Range(keys) |-> "v"]]

Passwords == {"p1", "p2"}
Certs == {"c1", "c2"}
Images == {"migrator:v1", "migrator:v2"}
DeploymentNames == {"ResourceNameImageAssuranceAPI", "ResourceNameImageAssuranceScanner",
                    "ResourceNameImageAssuranceCAW"}

NoJob == [found |-> FALSE, succeeded |-> 0, failed |-> 0, image |-> ""]
Job(s, f, img) == [found |-> TRUE, succeeded |-> s, failed |-> f, image |-> img]

\* orgID + "_user"
UserName(orgID) == IF orgID = "v" THEN "v_user" ELSE "_user"

\* The first key of keys, in order, that data lacks or holds empty; "" if none.
FirstBad(data, keys) ==
    LET bad == {i \in 1..Len(keys) : ~Has(data, keys[i])} IN
    IF bad = {} THEN "" ELSE keys[CHOOSE i \in bad : \A j \in bad : i <= j]

\* The errors the getters return: which resource could not be read, or which
\* field the message says which resource lacks.
NoError == [kind |-> "nil", resource |-> "", field |-> ""]
ReadError(resource) == [kind |-> "failed to read", resource |-> resource, field |-> ""]
FieldError(resource, field) == [kind |-> "expected field", resource |-> resource, field |-> field]
OtherError(call) == [kind |-> "error", resource |-> call, field |-> ""]

\* func getPGConfig
getPGConfig(cm, getFails) ==
    IF getFails \/ ~cm.found
    THEN [err |-> ReadError("PGConfigMapName"), val |-> cm]
    ELSE LET bad == FirstBad(cm.data, PGConfigKeys) IN
         IF bad # ""
         THEN [err |-> FieldError("PGConfigMapName", bad), val |-> cm]
         ELSE [err |-> NoError, val |-> cm]

\* Variant of getOrCreatePGUserSecret that generates a new credential on every call.
getOrCreatePGUserSecret_Regenerates(us, getFails, orgID, pass, randFails) ==
    IF getFails
    THEN [err |-> ReadError("PGUserSecretName"), val |-> us]
    ELSE IF randFails
    THEN [err |-> OtherError("RandomPassword"), val |-> us]
    ELSE [err |-> NoError,
          val |-> [found |-> TRUE,
                   data |-> [k \in Range(PGUserKeys) |->
                               IF k = "PGUserSecretKey" THEN UserName(orgID) ELSE pass]]]

\* Variant of getOrCreatePGUserSecret that generates a new credential when
\* the stored secret lacks a field.
getOrCreatePGUserSecret_RepairsFields(us, getFails, orgID, pass, randFails) ==
    IF getFails
    THEN [err |-> ReadError("PGUserSecretName"), val |-> us]
    ELSE IF ~us.found \/ FirstBad(us.data, PGUserKeys) # ""
    THEN IF randFails
         THEN [err |-> OtherError("RandomPassword"), val |-> us]
         ELSE [err |-> NoError,
               val |-> [found |-> TRUE,
                        data |-> [k \in Range(PGUserKeys) |->
                                    IF k = "PGUserSecretKey" THEN UserName(orgID) ELSE pass]]]
    ELSE [err |-> NoError, val |-> us]

\* func getOrCreatePGUserSecret
getOrCreatePGUserSecret(us, getFails, orgID, pass, randFails) ==
    IF getFails
    THEN [err |-> ReadError("PGUserSecretName"), val |-> us]
    ELSE IF ~us.found
    THEN IF randFails
         THEN [err |-> OtherError("RandomPassword"), val |-> us]
         ELSE [err |-> NoError,
               val |-> [found |-> TRUE,
                        data |-> [k \in Range(PGUserKeys) |->
                                    IF k = "PGUserSecretKey" THEN UserName(orgID) ELSE pass]]]
    ELSE LET bad == FirstBad(us.data, PGUserKeys) IN
         IF bad # ""
         THEN [err |-> FieldError("PGUserSecretName", bad), val |-> us]
         ELSE [err |-> NoError, val |-> us]

\* Variant of getAdminPGUserSecret that returns no error for a secret it
\* cannot use.
getAdminPGUserSecret_NeverFails(us, getFails) ==
    [err |-> NoError, val |-> us]

\* func getAdminPGUserSecret (its field messages name PGUserSecretName)
getAdminPGUserSecret(us, getFails) ==
    IF getFails \/ ~us.found
    THEN [err |-> ReadError("PGAdminUserSecretName"), val |-> us]
    ELSE LET bad == FirstBad(us.data, PGUserKeys) IN
         IF bad # ""
         THEN [err |-> FieldError("PGUserSecretName", bad), val |-> us]
         ELSE [err |-> NoError, val |-> us]

\* func getPGCertSecret
getPGCertSecret(cs, getFails) ==
    IF getFails \/ ~cs.found
    THEN [err |-> ReadError("PGCertSecretName"), val |-> cs]
    ELSE LET bad == FirstBad(cs.data, PGCertKeys) IN
         IF bad # ""
         THEN [err |-> FieldError("PGCertSecretName", bad), val |-> cs]
         ELSE [err |-> NoError, val |-> cs]

\* Variant of getTenantKey that returns the secret without looking at its field.
getTenantKey_NoFieldCheck(cs, getFails) ==
    IF getFails \/ ~cs.found
    THEN [err |-> ReadError("TenantKeyName"), val |-> cs]
    ELSE [err |-> NoError, val |-> cs]

\* func getTenantKey (its field message names PGCertSecretName)
getTenantKey(cs, getFails) ==
    IF getFails \/ ~cs.found
    THEN [err |-> ReadError("TenantKeyName"), val |-> cs]
    ELSE LET bad == FirstBad(cs.data, TenantKeys) IN
         IF bad # ""
         THEN [err |-> FieldError("PGCertSecretName", bad), val |-> cs]
         ELSE [err |-> NoError, val |-> cs]

\* Variant of ValidateCertPair that returns an error when the secret is not found.
ValidateCertPair_NotFoundIsError(secret, fails) ==
    IF fails \/ secret \in {"invalid", "absent"}
    THEN [err |-> OtherError("ValidateCertPair"), val |-> secret]
    ELSE [err |-> NoError, val |-> secret]

\* utils.ValidateCertPair: nil, nil when the secret is not found.
ValidateCertPair(secret, fails) ==
    IF fails \/ secret = "invalid"
    THEN [err |-> OtherError("ValidateCertPair"), val |-> secret]
    ELSE [err |-> NoError, val |-> secret]

\* func getAPICertSecret: the stored secret when it is valid for the service
\* DNS names, else a newly minted one.
getAPICertSecret(secret, validateFails, ensureFails, cert) ==
    LET v == ValidateCertPair(secret, validateFails) IN
    IF v.err # NoError
    THEN v
    ELSE IF ensureFails
    THEN [err |-> OtherError("EnsureCertificateSecret"), val |-> secret]
    ELSE IF secret \in {"absent", "staleDNS"}
    THEN [err |-> NoError, val |-> cert]
    ELSE [err |-> NoError, val |-> secret]

\* func getMigratorJob: nil, nil when the job is not found.
getMigratorJob(job, getFails) ==
    IF getFails
    THEN [err |-> OtherError("getMigratorJob"), val |-> NoJob]
    ELSE [err |-> NoError, val |-> job]

\* components.GetReference for the db-migrator image.
GetReference(imageSet) == IF imageSet = "none" THEN "migrator:v1" ELSE "migrator:v2"

\* Variant of needsMigrating that asks for a migration when the job has
\* recorded a failure.
needsMigrating_CountsFailures(newJobImageName, migratorJob) ==
    LET previousJobImageName == IF migratorJob.found THEN migratorJob.image ELSE "" IN
    \/ migratorJob.found /\ (migratorJob.succeeded = 0 \/ migratorJob.failed # 0)
    \/ previousJobImageName = ""
    \/ previousJobImageName # newJobImageName

\* func needsMigrating
needsMigrating(newJobImageName, migratorJob) ==
    LET previousJobImageName == IF migratorJob.found THEN migratorJob.image ELSE "" IN
    \/ migratorJob.found /\ migratorJob.succeeded = 0
    \/ previousJobImageName = ""
    \/ previousJobImageName # newJobImageName

\* Variant of componentsUp that is true only when the three deployments exist.
componentsUp_AllDeployments(deployments) ==
    /\ "ResourceNameImageAssuranceAPI" \in deployments
    /\ "ResourceNameImageAssuranceScanner" \in deployments
    /\ "ResourceNameImageAssuranceCAW" \in deployments

\* func componentsUp
componentsUp(deployments) ==
    \/ "ResourceNameImageAssuranceAPI" \in deployments
    \/ "ResourceNameImageAssuranceScanner" \in deployments
    \/ "ResourceNameImageAssuranceCAW" \in deployments

(***************************************************************************)
(* The reconciler: rendering and applying the change-set.                  *)
(***************************************************************************)
NoChangeSet == [tlsSecret |-> "", pgUserSecret |-> NotFound(PGUserKeys), job |-> "",
                deployments |-> FALSE, deleteDeployments |-> FALSE]

\* imageassurance.ImageAssurance(config) with the passthrough of the TLS
\* secret: the objects to create or update and the objects to delete.  The
\* user secret and the TLS secret are always desired; the migrator job is
\* desired while migration is needed and no component runs; the components
\* are deleted while migration is needed and desired once it is not.
Render(config) ==
    [tlsSecret |-> config.TLSSecret,
     pgUserSecret |-> config.PGUserSecret,
     job |-> IF config.NeedsMigrating /\ ~config.ComponentsUp THEN config.image ELSE "",
     deployments |-> ~config.NeedsMigrating,
     deleteDeployments |-> config.NeedsMigrating /\ config.ComponentsUp]

\* ch.CreateOrUpdateOrDelete of the passthrough component: create a missing
\* object, update a changed one.
ApplyPassthrough(st, cs) ==
    IF st.apiCertSecret = cs.tlsSecret
    THEN [store |-> st, muts |-> {}]
    ELSE [store |-> [st EXCEPT !.apiCertSecret = cs.tlsSecret],
          muts |-> {<<IF st.apiCertSecret = "absent" THEN "create" ELSE "update",
                      "APICertSecretName">>}]

\* ch.CreateOrUpdateOrDelete of the image assurance component.
ApplyImageAssurance(st, cs) ==
    LET secretMuts == IF st.pgUserSecret = cs.pgUserSecret THEN {}
                      ELSE {<<IF st.pgUserSecret.found THEN "update" ELSE "create",
                              "PGUserSecretName">>}
        jobMuts == IF cs.job = "" \/ (st.migratorJob.found /\ st.migratorJob.image = cs.job)
                   THEN {}
                   ELSE {<<IF st.migratorJob.found THEN "update" ELSE "create",
                           "ResourceNameImageAssuranceDBMigrator">>}
        newJob == IF jobMuts = {} THEN st.migratorJob ELSE Job(0, 0, cs.job)
        created == IF cs.deployments THEN DeploymentNames \ st.deployments ELSE {}
        deleted == IF cs.deleteDeployments THEN st.deployments ELSE {}
    IN [store |-> [st EXCEPT !.pgUserSecret = cs.pgUserSecret,
                             !.migratorJob = newJob,
                             !.deployments = (st.deployments \cup created) \ deleted],
        muts |-> secretMuts \cup jobMuts
                  \cup {<<"create", d>> : d \in created}
                  \cup {<<"delete", d>> : d \in deleted}]

(***************************************************************************)
(* The reconciler: one Reconcile attempt.                                  *)
(***************************************************************************)
\* The calls made on the StatusManager.
SetDegraded(reason, detail) == [op |-> "SetDegraded", reason |-> reason, detail |-> detail]
ClearDegraded == [op |-> "ClearDegraded", reason |-> "", detail |-> NoError]
OnCRNotFound == [op |-> "OnCRNotFound", reason |-> "", detail |-> NoError]

\* What an attempt did: the StatusManager calls in order, the returned
\* reconcile.Result and error, the change-set it rendered, the number of
\* CreateOrUpdateOrDelete calls that returned, the objects it created,
\* updated or deleted, its locals needsMigrating, componentsUp and the
\* re-read migratorJob, the row of the decision table it took, the status
\* update of the primary resource, and whether it is the first (1) or a later
\* (2) attempt in a row with no environment event in between.
NoAttempt ==
    [ran |-> FALSE, calls |-> <<>>, requeueAfter |-> 0, err |-> FALSE,
     rendered |-> FALSE, cs |-> NoChangeSet, applyCalls |-> 0, muts |-> {},
     needsMigrating |-> FALSE, componentsUp |-> FALSE,
     jobReread |-> FALSE, migratorJob |-> NoJob, row |-> "", statusUpdate |-> "none",
     nth |-> 0]

\* The call of the attempt that fails with an error other than NotFound.
FailPoints ==
    {"none", "GetImageAssurance", "GetInstallation", "GetNetworkingPullSecrets",
     "getPGConfig", "getOrCreatePGUserSecret", "RandomPassword", "getAdminPGUserSecret",
     "getPGCertSecret", "ValidateCertPair", "getAPICertSecret", "EnsureCertificateSecret",
     "getMigratorJob", "GetImageSet", "ValidateImageSet", "getTenantKey", "needsMigrating",
     "componentsUp", "GetAuthentication", "GetKeyValidatorConfig", "ApplyImageSet",
     "CreateOrUpdateOrDelete1", "CreateOrUpdateOrDelete2", "getMigratorJob2", "StatusUpdate"}

\* Variant of Degrade that always returns an empty reconcile.Result.
Degrade_EmptyResult(st, sm, rec, reason, detail, isErr, requeue) ==
    [store |-> st,
     status |-> [sm EXCEPT !.degraded = reason],
     rec |-> [rec EXCEPT !.calls = Append(@, SetDegraded(reason, detail)),
                         !.err = isErr, !.requeueAfter = 0]]

\* Variant of Degrade that clears the degraded status before it sets it.
Degrade_ClearsFirst(st, sm, rec, reason, detail, isErr, requeue) ==
    [store |-> st,
     status |-> [sm EXCEPT !.degraded = reason],
     rec |-> [rec EXCEPT !.calls = Append(Append(@, ClearDegraded), SetDegraded(reason, detail)),
                         !.err = isErr, !.requeueAfter = requeue]]

\* r.status.SetDegraded(reason, detail) followed by a return.
Degrade(st, sm, rec, reason, detail, isErr, requeue) ==
    [store |-> st,
     status |-> [sm EXCEPT !.degraded = reason],
     rec |-> [rec EXCEPT !.calls = Append(@, SetDegraded(reason, detail)),
                         !.err = isErr, !.requeueAfter = requeue]]

\* Variant of DecisionRow whose first row only looks at the absence of the job.
DecisionRow_JobAbsentOnly(job, cu, nm) ==
    IF ~job.found THEN "create"
    ELSE IF job.succeeded = 0 /\ job.failed = 0 THEN "running"
    ELSE IF job.succeeded = 0 THEN "failed"
    ELSE "succeeded"

\* Variant of DecisionRow that tests for failure before it tests for a running job.
DecisionRow_FailedFirst(job, cu, nm) ==
    IF ~job.found \/ (cu /\ nm) THEN "create"
    ELSE IF job.succeeded = 0 THEN "failed"
    ELSE IF job.succeeded = 0 /\ job.failed = 0 THEN "running"
    ELSE "succeeded"

\* Variant of DecisionRow whose running row ignores the failure counter.
DecisionRow_IgnoresFailed(job, cu, nm) ==
    IF ~job.found \/ (cu /\ nm) THEN "create"
    ELSE IF job.succeeded = 0 THEN "running"
    ELSE "succeeded"

\* The scheduling decision after the apply step: the first row that matches.
\* Variant of DecisionRow that takes a job with no success and no failure
\* yet for a job that has succeeded.
DecisionRow_RunningIsSucceeded(job, cu, nm) ==
    IF ~job.found \/ (cu /\ nm) THEN "create"
    ELSE IF job.succeeded = 0 /\ job.failed # 0 THEN "failed"
    ELSE "succeeded"

DecisionRow(job, cu, nm) ==
    IF ~job.found \/ (cu /\ nm) THEN "create"
    ELSE IF job.succeeded = 0 /\ job.failed = 0 THEN "running"
    ELSE IF job.succeeded = 0 THEN "failed"
    ELSE "succeeded"

\* Variant of Succeeded that returns ready without asking IsAvailable.
Succeeded_IgnoresAvailable(st, sm, rec, updateFails) ==
    LET cleared == [rec EXCEPT !.calls = Append(@, ClearDegraded)] IN
    IF updateFails
    THEN [store |-> st, status |-> [sm EXCEPT !.degraded = ""],
          rec |-> [cleared EXCEPT !.statusUpdate = "failed", !.err = TRUE]]
    ELSE [store |-> [st EXCEPT !.iaState = "Ready"], status |-> [sm EXCEPT !.degraded = ""],
          rec |-> [cleared EXCEPT !.statusUpdate = "Ready"]]

\* The last row: ClearDegraded, then requeue while not available, else set
\* the state to ready and update the status of the primary resource.
Succeeded(st, sm, rec, updateFails) ==
    LET cleared == [rec EXCEPT !.calls = Append(@, ClearDegraded)] IN
    IF ~sm.available
    THEN [store |-> st, status |-> [sm EXCEPT !.degraded = ""],
          rec |-> [cleared EXCEPT !.requeueAfter = RequeueNotAvailable]]
    ELSE IF updateFails
    THEN [store |-> st, status |-> [sm EXCEPT !.degraded = ""],
          rec |-> [cleared EXCEPT !.statusUpdate = "failed", !.err = TRUE]]
    ELSE [store |-> [st EXCEPT !.iaState = "Ready"], status |-> [sm EXCEPT !.degraded = ""],
          rec |-> [cleared EXCEPT !.statusUpdate = "Ready"]]

\* Variant of CRNotFound that treats the absence as a failure of the lookup.
CRNotFound_IsError(st, sm, rec) ==
    Degrade(st, sm, rec, "Error querying for ImageAssurance", OtherError("NotFound"), TRUE, 0)

\* The primary resource is not found: r.status.OnCRNotFound() and return.
CRNotFound(st, sm, rec) ==
    [store |-> st, status |-> [sm EXCEPT !.degraded = ""],
     rec |-> [rec EXCEPT !.calls = <<OnCRNotFound>>]]

\* func (r *ReconcileImageAssurance) Reconcile.  st is the store and sm the
\* StatusManager when the attempt starts; f is the call that fails, pass the
\* password RandomPassword would return and cert the certificate
\* EnsureCertificateSecret would mint.
Reconcile(st, sm, f, pass, cert) ==
    LET r0 == [NoAttempt EXCEPT !.ran = TRUE]
        pgConfig == getPGConfig(st.pgConfig, f = "getPGConfig")
        pgUserSecret == getOrCreatePGUserSecret(st.pgUserSecret, f = "getOrCreatePGUserSecret",
                            pgConfig.val.data["PGConfigOrgIDKey"], pass, f = "RandomPassword")
        pgAdminUserSecret == getAdminPGUserSecret(st.pgAdminUserSecret, f = "getAdminPGUserSecret")
        pgCertSecret == getPGCertSecret(st.pgCertSecret, f = "getPGCertSecret")
        internalMgrSecret == ValidateCertPair(st.internalMgrSecret, f = "ValidateCertPair")
        tlsSecret == getAPICertSecret(st.apiCertSecret, f = "getAPICertSecret",
                                      f = "EnsureCertificateSecret", cert)
        migratorJob == getMigratorJob(st.migratorJob, f = "getMigratorJob")
        tenantKey == getTenantKey(st.tenantKey, f = "getTenantKey")
        nm == needsMigrating(GetReference(st.imageSet), migratorJob.val)
        cu == componentsUp(st.deployments)
        config == [PGUserSecret |-> pgUserSecret.val, TLSSecret |-> tlsSecret.val,
                   image |-> GetReference(st.imageSet),
                   NeedsMigrating |-> nm, ComponentsUp |-> cu]
        cs == Render(config)
        r1 == [r0 EXCEPT !.rendered = TRUE, !.cs = cs, !.needsMigrating = nm, !.componentsUp = cu]
        a1 == ApplyPassthrough(st, cs)
        r2 == [r1 EXCEPT !.applyCalls = 1, !.muts = a1.muts]
        a2 == ApplyImageAssurance(a1.store, cs)
        r3 == [r2 EXCEPT !.applyCalls = 2, !.muts = a1.muts \cup a2.muts]
        job2 == getMigratorJob(a2.store.migratorJob, f = "getMigratorJob2")
        r4 == [r3 EXCEPT !.jobReread = TRUE, !.migratorJob = job2.val]
        row == DecisionRow(job2.val, cu, nm)
        r5 == [r4 EXCEPT !.row = row]
    IN
    IF f = "GetImageAssurance"
    THEN Degrade(st, sm, r0, "Error querying for ImageAssurance", OtherError(f), TRUE, 0)
    ELSE IF st.ia = "absent"
    THEN CRNotFound(st, sm, r0)
    ELSE IF f = "GetInstallation"
    THEN Degrade(st, sm, r0, "Error querying installation", OtherError(f), TRUE, 0)
    ELSE IF st.installation = "absent"
    THEN Degrade(st, sm, r0, "Installation not found", OtherError("NotFound"), FALSE, 0)
    ELSE IF f = "GetNetworkingPullSecrets"
    THEN Degrade(st, sm, r0, "Error retrieving image pull secrets", OtherError(f), TRUE, 0)
    ELSE IF pgConfig.err # NoError
    THEN Degrade(st, sm, r0, "Error retrieving postgres configuration", pgConfig.err, TRUE, 0)
    ELSE IF pgUserSecret.err # NoError
    THEN Degrade(st, sm, r0, "Error retrieving postgres secret", pgUserSecret.err, TRUE, 0)
    ELSE IF pgAdminUserSecret.err # NoError
    THEN Degrade(st, sm, r0, "Error retrieving postgres admin secret", pgAdminUserSecret.err, TRUE, 0)
    ELSE IF pgCertSecret.err # NoError
    THEN Degrade(st, sm, r0, "Error retrieving postgres cert secret", pgCertSecret.err, TRUE, 0)
    ELSE IF internalMgrSecret.err # NoError
    THEN Degrade(st, sm, r0, "Error retrieving internal manager tls secret",
                 internalMgrSecret.err, TRUE, 0)
    ELSE IF internalMgrSecret.val = "absent"
    THEN Degrade(st, sm, r0, "Waiting for internal manager tls certificate to be available",
                 NoError, FALSE, 0)
    ELSE IF tlsSecret.err # NoError
    THEN Degrade(st, sm, r0, "Error in ensuring TLS certificate for image-assurance api",
                 tlsSecret.err, TRUE, 0)
    ELSE IF migratorJob.err # NoError
    THEN Degrade(st, sm, r0, "Error retrieving db-migrator job", migratorJob.err, TRUE, 0)
    ELSE IF f = "GetImageSet"
    THEN Degrade(st, sm, r0, "Error retrieving image set", OtherError(f), TRUE, 0)
    ELSE IF f = "ValidateImageSet"
    THEN Degrade(st, sm, r0, "Error validating image set", OtherError(f), TRUE, 0)
    ELSE IF tenantKey.err # NoError
    THEN Degrade(st, sm, r0, "Error retrieving tenant key", tenantKey.err, TRUE, 0)
    ELSE IF f = "needsMigrating"
    THEN Degrade(st, sm, r0, "Error calculating if migration is needed", OtherError(f), TRUE, 0)
    ELSE IF f = "componentsUp"
    THEN Degrade(st, sm, r0, "Error when checking if image assurance deployments are up",
                 OtherError(f), TRUE, RequeueComponentsUpErr)
    ELSE IF f = "GetAuthentication"
    THEN Degrade(st, sm, r0, "Error querying Authentication", OtherError(f), TRUE, 0)
    ELSE IF st.authentication = "NotReady"
    THEN Degrade(st, sm, r0, "Authentication is not ready", OtherError("authenticationCR status"),
                 FALSE, 0)
    ELSE IF f = "GetKeyValidatorConfig"
    THEN Degrade(st, sm, r0, "Failed to process the authentication CR.", OtherError(f), TRUE, 0)
    ELSE IF f = "ApplyImageSet"
    THEN Degrade(st, sm, r1, "Error with images from ImageSet", OtherError(f), TRUE, 0)
    ELSE IF f = "CreateOrUpdateOrDelete1"
    THEN Degrade(st, sm, r1, "Error creating / updating resource", OtherError(f), TRUE, 0)
    ELSE IF f = "CreateOrUpdateOrDelete2"
    THEN Degrade(a1.store, sm, r2, "Error creating / updating resource", OtherError(f), TRUE, 0)
    ELSE IF job2.err # NoError
    THEN Degrade(a2.store, sm, r3, "Error retrieving db-migrator job", job2.err, TRUE, 0)
    ELSE IF row = "create"
    THEN Degrade(a2.store, sm, r5, "Waiting for migrator job to be created", NoError, FALSE,
                 RequeueMigratorCreate)
    ELSE IF row = "running"
    THEN Degrade(a2.store, sm, r5, "Waiting for migrator job to finish running", NoError, FALSE, 0)
    ELSE IF row = "failed"
    THEN Degrade(a2.store, sm, r5, "Migrator job failed", OtherError("migrator job failed"),
                 FALSE, 0)
    ELSE Succeeded(a2.store, sm, r5, f = "StatusUpdate")

(***************************************************************************)
(* The reconciler: the attempts and the environment.                       *)
(***************************************************************************)
DataResources == {"pgConfig", "pgUserSecret", "pgAdminUserSecret", "pgCertSecret", "tenantKey"}
KeysOf(res) ==
    CASE res = "pgConfig" -> PGConfigKeys
      [] res = "pgUserSecret" -> PGUserKeys
      [] res = "pgAdminUserSecret" -> PGUserKeys
      [] res = "pgCertSecret" -> PGCertKeys
      [] res = "tenantKey" -> TenantKeys

\* The objects of the store that hold no Data map, and the states each can be in.
PlainObjects == {"ia", "installation", "imageSet", "internalMgrSecret", "apiCertSecret",
                 "authentication"}
StatesOf(obj) ==
    CASE obj = "ia" -> {"absent", "present"}
      [] obj = "installation" -> {"absent", "present"}
      [] obj = "imageSet" -> {"none", "v2"}
      [] obj = "internalMgrSecret" -> {"absent", "invalid", "valid"}
      [] obj = "apiCertSecret" -> {"absent", "invalid", "staleDNS"}
      [] obj = "authentication" -> {"absent", "NotReady", "Ready"}

\* The states of a ConfigMap or Secret with the given keys: not found, or
\* found with each key either missing or set.
GateData(keys) ==
    {NotFound(keys)} \cup
    {[found |-> TRUE, data |-> d] : d \in [Range(keys) -> {Missing, "v"}]}

\* A cluster in which every prerequisite is valid, nothing is applied yet and
\* the job has not run.
FreshStore ==
    [ia |-> "present", iaState |-> "", installation |-> "present",
     imageSet |-> "none",
     pgConfig |-> Full(PGConfigKeys),
     pgUserSecret |-> NotFound(PGUserKeys),
     pgAdminUserSecret |-> Full(PGUserKeys),
     pgCertSecret |-> Full(PGCertKeys),
     tenantKey |-> Full(TenantKeys),
     internalMgrSecret |-> "valid",
     apiCertSecret |-> "absent",
     authentication |-> "absent",
     migratorJob |-> NoJob,
     deployments |-> {}]

RecIdle ==
    /\ store = FreshStore
    /\ status = [degraded |-> "", available |-> TRUE]
    /\ last = NoAttempt
    /\ envChanges = 0

SyncIdle == NewSyncer /\ configMap = NoConfigMap

RecInit ==
    /\ SyncIdle
    /\ \E job \in {NoJob} \cup {Job(sc, fl, img) : sc \in 0..1, fl \in 0..1, img \in Images},
          deps \in {{}, DeploymentNames} :
         store = [FreshStore EXCEPT !.migratorJob = job, !.deployments = deps]
    /\ status \in [degraded : {""}, available : BOOLEAN]
    /\ last = NoAttempt
    /\ envChanges = 0

\* RandomPassword is called only when the user secret is not found, and a
\* certificate is minted only when the stored one is absent or stale.
PasswordsDrawn(st) == IF st.pgUserSecret.found THEN {"p1"} ELSE Passwords
CertsDrawn(st) == IF st.apiCertSecret \in {"absent", "staleDNS"} THEN Certs ELSE {"c1"}

\* One invocation of Reconcile by the controller runtime.
ReconcileAttempt(f) ==
    /\ f = "none" \/ envChanges < MaxEnvChanges
    /\ envChanges' = IF f = "none" THEN envChanges ELSE envChanges + 1
    /\ \E pass \in PasswordsDrawn(store), cert \in CertsDrawn(store) :
         LET o == Reconcile(store, status, f, pass, cert) IN
         /\ store' = o.store
         /\ status' = o.status
         /\ last' = [o.rec EXCEPT !.nth = IF last.ran /\ f = "none" THEN 2 ELSE 1]
    /\ UNCHANGED syncVars

EnvStep ==
    /\ envChanges < MaxEnvChanges
    /\ envChanges' = envChanges + 1
    /\ last' = NoAttempt
    /\ UNCHANGED syncVars

\* Somebody writes one key of a ConfigMap or Secret.
EnvWriteData(res, key, val) ==
    /\ EnvStep
    /\ store[res].found
    /\ store[res].data[key] # val
    /\ store' = [store EXCEPT ![res].data[key] = val]
    /\ UNCHANGED status

EnvDelete(res) ==
    /\ EnvStep
    /\ store[res].found
    /\ store' = [store EXCEPT ![res] = NotFound(KeysOf(res))]
    /\ UNCHANGED status

EnvCreate(res) ==
    /\ EnvStep
    /\ ~store[res].found
    /\ store' = [store EXCEPT ![res] = Full(KeysOf(res))]
    /\ UNCHANGED status

EnvSetObject(obj, val) ==
    /\ EnvStep
    /\ store[obj] # val
    /\ store' = [store EXCEPT ![obj] = val]
    /\ UNCHANGED status

\* The job controller reports the migrator job's pods.
EnvJobStatus(sc, fl) ==
    /\ EnvStep
    /\ store.migratorJob.found
    /\ <<store.migratorJob.succeeded, store.migratorJob.failed>> # <<sc, fl>>
    /\ store' = [store EXCEPT !.migratorJob.succeeded = sc, !.migratorJob.failed = fl]
    /\ UNCHANGED status

EnvJobDelete ==
    /\ EnvStep
    /\ store.migratorJob.found
    /\ store' = [store EXCEPT !.migratorJob = NoJob]
    /\ UNCHANGED status

EnvDeploymentDelete(d) ==
    /\ EnvStep
    /\ d \in store.deployments
    /\ store' = [store EXCEPT !.deployments = @ \ {d}]
    /\ UNCHANGED status

\* The StatusManager's view of the deployments changes.
EnvAvailable ==
    /\ EnvStep
    /\ status' = [status EXCEPT !.available = ~@]
    /\ UNCHANGED store

RecNext ==
    \/ \E f \in FailPoints : ReconcileAttempt(f)
    \/ \E res \in DataResources : \E key \in Range(KeysOf(res)), val \in {Missing, "", "v"} :
          EnvWriteData(res, key, val)
    \/ \E res \in DataResources : EnvDelete(res)
    \/ \E res \in DataResources : EnvCreate(res)
    \/ \E obj \in PlainObjects : \E val \in StatesOf(obj) : EnvSetObject(obj, val)
    \/ \E sc \in 0..1, fl \in 0..1 : EnvJobStatus(sc, fl)
    \/ EnvJobDelete
    \/ \E d \in DeploymentNames : EnvDeploymentDelete(d)
    \/ EnvAvailable

\* The actor's behaviours, with the cluster store of the reconciler left alone.
SyncInit == NewSyncer /\ RecIdle

SyncSpec == SyncInit /\ [][SyncNext]_vars

\* The reconciler's behaviours, with no driver using the actor.
RecSpec == RecInit /\ [][RecNext]_vars

\* The dependency gate on its own: one attempt, with no failing API call,
\* from every store in which each ConfigMap and Secret of the dependency set
\* is absent or holds any subset of its keys, the keys it lacks being either
\* all missing or all empty.
GateStores ==
    {[FreshStore EXCEPT !.pgConfig = cm, !.pgUserSecret = us, !.pgAdminUserSecret = as,
                        !.pgCertSecret = cs, !.tenantKey = tk] :
        cm \in GateData(PGConfigKeys), us \in GateData(PGUserKeys),
        as \in GateData(PGUserKeys), cs \in GateData(PGCertKeys),
        tk \in GateData(TenantKeys)}

GateInit ==
    /\ SyncIdle
    /\ \E bad \in {Missing, ""} : \E st \in GateStores :
         store = [res \in DOMAIN st |->
                    IF res \in DataResources /\ st[res].found
                    THEN [st[res] EXCEPT !.data =
                            [k \in DOMAIN st[res].data |->
                               IF st[res].data[k] = Missing THEN bad ELSE st[res].data[k]]]
                    ELSE st[res]]
    /\ status = [degraded |-> "", available |-> TRUE]
    /\ last = NoAttempt
    /\ envChanges = 0

GateNext == ReconcileAttempt("none")

GateSpec == GateInit /\ [][GateNext]_vars

\* The order of the steps: one attempt in which any one call may fail, from
\* every store in which several dependencies at once are absent or unusable.
OrderInit ==
    /\ SyncIdle
    /\ \E inst \in StatesOf("installation"),
          cfg \in {Full(PGConfigKeys), [Full(PGConfigKeys) EXCEPT !.data["PGConfigOrgIDKey"] = Missing]},
          adm \in {Full(PGUserKeys), NotFound(PGUserKeys)},
          crt \in {Full(PGCertKeys), [Full(PGCertKeys) EXCEPT !.data["PGClientKeyKey"] = ""]},
          mgr \in StatesOf("internalMgrSecret"),
          api \in {"absent", "invalid"},
          ten \in {Full(TenantKeys), NotFound(TenantKeys)},
          auth \in {"absent", "NotReady"},
          job \in {NoJob, Job(1, 0, "migrator:v1")} :
         store = [FreshStore EXCEPT !.installation = inst, !.pgConfig = cfg,
                                    !.pgAdminUserSecret = adm, !.pgCertSecret = crt,
                                    !.internalMgrSecret = mgr, !.apiCertSecret = api,
                                    !.tenantKey = ten, !.authentication = auth,
                                    !.migratorJob = job]
    /\ status = [degraded |-> "", available |-> TRUE]
    /\ last = NoAttempt
    /\ envChanges = 0

OrderNext == \E f \in FailPoints : ReconcileAttempt(f)

OrderSpec == OrderInit /\ [][OrderNext]_vars

\* Go's select chooses uniformly at random among its ready cases, so a case
\* that is ready again and again is eventually chosen (strong fairness of the
\* ctx.Done() case); syncConfigMap returns (its HTTP client has a timeout);
\* the deferred calls of run() run once it returns.
LiveSyncSpec ==
    /\ SyncSpec
    /\ SF_vars(CtxDoneCase)
    /\ SF_vars(ApiChanCase)
    /\ WF_vars(StartSyncReturn)
    /\ WF_vars(TickSyncReturn)
    /\ WF_vars(DeferCloseDone)

(***************************************************************************)
(* Properties of the periodic sync actor.                                  *)
(***************************************************************************)
\* C2 (as stated): the timer creator is invoked at most once over the
\* actor's lifetime, whatever the interleaving of start signals, timer
\* events and error queries.
C2_TickerCreatedOnce == tickerCreations <= 1

\* C2 (amended): at most one ticker is live (created and not stopped) at any
\* time, and the creator is invoked again only after the previous ticker's
\* channel was closed: creations never exceed channel closes plus one.
C2_AtMostOneLiveTicker ==
    /\ tickerCreations - tickerStops <= 1
    /\ tickerCreations <= tickerCloses + 1
    /\ (ticker # 0 /\ pc # "returned") => tickerCreations - tickerStops = 1

\* C2 witness: the ticker was created a second time after a channel close,
\* and the first one was stopped.
C2_Witness == tickerCreations = 2 /\ tickerStops = 1 /\ ticker = 2 /\ apiChan # <<>>

\* C3: every reply sent on an errChan is the result of the most recently
\* completed synchronization (nil when none has completed), and it is sent
\* while no synchronization is in flight.
C3_ReplyIsLastCompletedSync ==
    [][(waiting' \subseteq waiting /\ waiting' # waiting) =>
          /\ pc \notin {"syncStart", "syncTick"}
          /\ lastReply'.val = (IF lastSync = NoSync THEN NoErr ELSE lastSync)
          /\ lastReply'.to \in waiting \ waiting']_vars

\* C3 witness: a driver was answered with the failure of the last
\* synchronization, which a ticker tick had triggered.
C3_Witness ==
    /\ lastReply.to \in Drivers
    /\ lastReply.val = "failed to get organization settings"
    /\ lastSync = lastReply.val
    /\ ticker # 0

\* C4 (as stated): once the context is cancelled the actor starts no
\* synchronization and receives nothing more from its mailbox.
C4_NoWorkAfterCancel ==
    [][ctxDone =>
          /\ ~(pc = "select" /\ pc' \in {"syncStart", "syncTick"})
          /\ ~(pc = "select" /\ Len(apiChan') < Len(apiChan))]_vars

\* C5: after the context is cancelled the done channel is eventually closed.
C5_CancelLeadsToDone == ctxDone ~> doneClosed

\* C5 witness: the actor terminated while Active, with a request still in
\* its mailbox and a tick still in the ticker channel.
C5_Witness ==
    /\ ctxDone /\ doneClosed /\ pc = "returned"
    /\ ticker # 0 /\ tickPending /\ apiChan # <<>>

\* The actor receives a start signal from its mailbox.
ReceivesStart ==
    /\ pc = "select"
    /\ apiChan # <<>>
    /\ Head(apiChan).type = "startSyncRequest"
    /\ apiChan' = Tail(apiChan)

\* C11: an Idle actor that receives a start signal begins one
\* synchronization while it has no ticker; the ticker is created in the step
\* that completes that synchronization and records its result as the last
\* error, nowhere else, so no tick is received before a synchronization has
\* completed.
C11_SyncBeforeTicker ==
    [][/\ (ReceivesStart /\ ticker = 0) =>
             (pc' = "syncStart" /\ ticker' = 0 /\ tickerCreations' = tickerCreations)
       /\ (pc = "syncStart" /\ pc' # pc) =>
             /\ ticker = 0 /\ tickerCh = 0
             /\ lastSync' # NoSync /\ err' = lastSync'
             /\ ticker' # 0 /\ tickerCh' = ticker' /\ ~tickPending'
             /\ tickerCreations' = tickerCreations + 1
             /\ pc' = "select"
       /\ tickerCreations' # tickerCreations => pc = "syncStart"
       /\ pc' = "syncTick" => lastSync # NoSync]_vars

\* C11 witness: the first synchronization failed, the ticker exists and no
\* tick has been delivered yet.
C11_Witness ==
    /\ tickerCreations = 1 /\ ticker = 1 /\ ~tickPending
    /\ pc = "select"
    /\ err = "API token not available" /\ lastSync = err

\* C12: a start signal received while the actor has a ticker changes
\* nothing but the mailbox: no synchronization is begun, no ticker is
\* created or stopped, and the ticker handle, the last error and the
\* ConfigMap are as before.
C12_StartWhileActiveIsNoOp ==
    [][(ReceivesStart /\ ticker # 0) =>
          UNCHANGED <<pc, ticker, tickerCh, tickPending, tickerChClosed, tickerCreations,
                      tickerStops, err, lastSync, configMap, waiting, lastReply,
                      doneClosed, apiChanClosed>>]_vars

\* C12 witness: a start signal sits in the mailbox of an actor that has a
\* ticker and a recorded failure, and is waiting in its select.
C12_Witness ==
    /\ ticker # 0 /\ pc = "select"
    /\ apiChan = <<startSyncRequest>>
    /\ err # NoErr

\* C13 (as stated): every driver waiting in Error() for its reply is
\* eventually answered (or the process has crashed on a send to the closed
\* mailbox, which ends every wait).
C13_ErrorAlwaysReplied ==
    \A d \in Drivers : (d \in waiting) ~> (d \notin waiting \/ panicked)

\* On a live actor no driver that is free to call StartPeriodicSync has to
\* wait: the call can always take its step.
StartNeverBlocks ==
    (~apiChanClosed /\ ~panicked) =>
        \A d \in Drivers \ waiting : ENABLED StartPeriodicSync(d)

\* C14 (as stated): StartPeriodicSync never blocks on a live actor, and all
\* the calls together cause at most one immediate synchronization and one
\* ticker creation.
C14_FireAndForgetOneStart ==
    /\ StartNeverBlocks
    /\ tickerCreations <= 1
    /\ pc = "syncStart" => tickerCreations = 0

\* C14 (amended): StartPeriodicSync never blocks on a live actor, and all
\* the calls together cause at most one immediate synchronization and one
\* ticker creation for each time the ticker channel is closed, plus one.
C14_FireAndForgetOneStartPerTicker ==
    /\ StartNeverBlocks
    /\ tickerCreations <= tickerCloses + 1
    /\ pc = "syncStart" => (ticker = 0 /\ tickerCreations <= tickerCloses)

\* C14 witness: the first synchronization is in progress, an error query
\* fills the mailbox and the other driver is free to call.
C14_Witness ==
    /\ pc = "syncStart" /\ tickerCreations = 0
    /\ Len(apiChan) = ApiChanCap
    /\ Head(apiChan).type = "getErrRequest"
    /\ Drivers \ waiting # {}

\* C15 (as stated): on a live actor a StartPeriodicSync call is dropped (the
\* mailbox has no room for its signal) only when a start signal is already
\* pending in the mailbox.
C15_DroppedOnlyIfStartPending ==
    (~apiChanClosed /\ ~panicked /\ Len(apiChan) >= ApiChanCap) =>
        \E i \in 1..Len(apiChan) : apiChan[i].type = "startSyncRequest"

\* A synchronization completes with a failure.
SyncFails ==
    /\ pc \in {"syncStart", "syncTick"}
    /\ pc' # pc
    /\ lastSync' # NoErr

\* C16: the step that completes a failing synchronization returns the actor
\* to its select with a ticker (the one it had, for a tick), records the
\* failure as the last error, closes nothing and sends nothing to any
\* driver; the last error changes only when a synchronization completes;
\* and an actor waiting in its select with a failure recorded still takes
\* a pending request and a pending tick.
C16_FailureDoesNotStopActor ==
    [][/\ SyncFails =>
             /\ pc' = "select"
             /\ ticker' # 0 /\ tickerCh' = ticker'
             /\ pc = "syncTick" => (ticker' = ticker /\ tickerCh' = tickerCh)
             /\ tickerStops' = tickerStops
             /\ err' = lastSync'
             /\ UNCHANGED <<apiChan, apiChanClosed, doneClosed, waiting, lastReply,
                            panicked>>
       /\ err' # err => (pc \in {"syncStart", "syncTick"} /\ pc' = "select")
       /\ (pc = "select" /\ err # NoErr /\ ~panicked) =>
             /\ apiChan # <<>> => ENABLED ApiChanCase
             /\ (tickerCh # 0 /\ tickPending) => ENABLED TickerChCase]_vars

\* C16 witness: after a failed synchronization is on record, the actor has
\* received a later tick and is synchronizing again, with its first ticker.
C16_Witness ==
    /\ pc = "syncTick"
    /\ err = "failed to update Image Assurance configuration"
    /\ ticker = 1 /\ tickerStops = 0
    /\ ~ctxDone

\* C17 (as stated): the done channel is closed last, so whenever it is
\* closed the mailbox is closed and every ticker created has been stopped.
C17_DoneClosedLast ==
    doneClosed => (apiChanClosed /\ tickerStops = tickerCreations)

\* A synchronization completes without error.
SyncSucceeds ==
    /\ pc \in {"syncStart", "syncTick"}
    /\ pc' = "select"
    /\ lastSync' = NoErr

\* C18: a synchronization that completes without error read an existing
\* ConfigMap, asked the remote service for the organization whose id that
\* ConfigMap holds, and left in the store that ConfigMap with
\* runtimeViewEnabled set to "true" or "false" according to the answer and
\* every other key as it was.
C18_SyncWritesSetting ==
    [][SyncSucceeds =>
          /\ configMap # NoConfigMap
          /\ \E org \in OrgAnswers :
               LET r == syncConfigMap(configMap, TRUE, "token", "pem", org, TRUE) IN
               /\ org.ok
               /\ r.err = NoErr /\ r.queried
               /\ r.askedOrg = configMap.organizationID
               /\ configMap' = r.cm
               /\ configMap'.runtimeViewEnabled =
                      (IF org.runtimeViewEnabled THEN "true" ELSE "false")
          /\ DOMAIN configMap' = DOMAIN configMap \cup {"runtimeViewEnabled"}
          /\ \A k \in DOMAIN configMap \ {"runtimeViewEnabled"} :
               configMap'[k] = configMap[k]]_vars

\* C18 witness: a tick's synchronization succeeded and the ConfigMap holds
\* the setting "true" next to its other keys.
C18_Witness ==
    /\ configMap # NoConfigMap
    /\ "runtimeViewEnabled" \in DOMAIN configMap
    /\ configMap.runtimeViewEnabled = "true"
    /\ configMap.organizationID = OrgID /\ configMap.other = "x"
    /\ lastSync = NoErr /\ pc = "select" /\ ticker # 0

\* A call of syncConfigMap is running.
Synchronizing == pc \in {"syncStart", "syncTick"}

\* C28: single-flight.  A synchronization begins only from the select of
\* the loop, so none begins while one is running; while one is running no
\* request is taken from the mailbox (callers may only add to it), no
\* pending tick is consumed, no Error() caller is answered and the ticker
\* is not replaced: the next step of run() is the return of that
\* synchronization to the select.
C28_SingleFlight ==
    [][/\ (pc' # pc /\ pc' \in {"syncStart", "syncTick"}) => pc = "select"
       /\ Synchronizing =>
            /\ pc' \in {pc, "select"}
            /\ Len(apiChan') >= Len(apiChan)
            /\ SubSeq(apiChan', 1, Len(apiChan)) = apiChan
            /\ tickPending => tickPending'
            /\ waiting \subseteq waiting'
            /\ lastReply' = lastReply
            /\ pc' = pc => (err' = err /\ lastSync' = lastSync /\ ticker' = ticker
                              /\ configMap' \in {configMap, BaseConfigMap})]_vars

\* C28 witness: during a synchronization started by a tick, an Error()
\* caller waits with its request in the mailbox and the next tick is
\* pending.
C28_Witness ==
    /\ pc = "syncTick"
    /\ tickPending
    /\ waiting # {}
    /\ apiChan # <<>> /\ Head(apiChan).type = "getErrRequest"

\* The ticker is created by the return of the synchronization that a start
\* signal began, and by no other step.
TickerCreatedByStart ==
    (ticker = 0 /\ ticker' # 0) =>
        /\ pc = "syncStart" /\ pc' = "select"
        /\ tickerCreations' = tickerCreations + 1
        /\ ticker' = tickerCreations'

\* C29 (as stated): the ticker is absent until the first start signal is
\* processed and, once created, no step of the actor returns it to the
\* state with no ticker.
C29_TimerPresentUntilCancel ==
    [][/\ TickerCreatedByStart
       /\ ticker # 0 => ticker' # 0]_vars

\* C29 (amended): the ticker is absent until a start signal is processed;
\* once created it stays the same ticker until the loop, in its select,
\* receives the close of the ticker's channel: that step stops the ticker
\* and leaves the actor with no ticker and no ticker channel.  Receiving a
\* tick never removes the ticker, nor does cancellation.
C29_TimerPresentUntilChannelClosed ==
    [][/\ TickerCreatedByStart
       /\ (ticker # 0 /\ ticker' # 0) => ticker' = ticker
       /\ (ticker # 0 /\ ticker' = 0) =>
             /\ pc = "select" /\ pc' = "select"
             /\ tickerChClosed /\ ~tickPending
             /\ tickerStops' = tickerStops + 1
             /\ tickerCh' = 0]_vars

\* C29 witness: the context is not cancelled, the one ticker created was
\* stopped after its channel was closed, and the actor is back in its select
\* with no ticker.
C29_Witness ==
    /\ ~ctxDone /\ pc = "select"
    /\ tickerCreations = 1 /\ tickerCloses = 1 /\ tickerStops = 1
    /\ ticker = 0 /\ tickerCh = 0

\* The actor has not yet received a start signal: it created no ticker and
\* is not in the synchronization that a start signal begins.
BeforeFirstStart == tickerCreations = 0 /\ pc # "syncStart"

\* C30: until the actor has received its first start signal no
\* synchronization is running and none has completed, so the ConfigMap was
\* not written and err is nil; there is no ticker and no ticker channel, so
\* no tick can be pending or received; and every reply sent to an Error()
\* caller so far is nil.
C30_IdleUntilFirstStart ==
    BeforeFirstStart =>
        /\ pc # "syncTick"
        /\ lastSync = NoSync
        /\ err = NoErr
        /\ configMap \in {NoConfigMap, BaseConfigMap}
        /\ ticker = 0 /\ tickerCh = 0
        /\ ~tickPending /\ ~tickerChClosed
        /\ ~ENABLED TickerChCase
        /\ ~ENABLED Tick
        /\ lastReply.val = NoErr

\* C30 witness: before any start signal an Error() caller was answered nil
\* while the ConfigMap exists, and the actor is back in its select.
C30_Witness ==
    /\ BeforeFirstStart
    /\ pc = "select"
    /\ lastReply.to \in Drivers /\ lastReply.val = NoErr
    /\ configMap = BaseConfigMap
    /\ waiting = {}

\* The errors of the steps of a synchronization that precede the update of
\* the ConfigMap.
ErrorsBeforeWriteBack ==
    {"failed to retrieve image assurance configuration",
     "failed to retrieve API token",
     "API token not available",
     "failed to get Image Assurance API certificate",
     "failed to get organization settings"}

\* C31: a synchronization that completes with the error of a step before
\* the update leaves the ConfigMap in the store as it was; and for every
\* answer the store and the remote service can give to a synchronization
\* that begins, a failing read, token, certificate or query makes it return
\* the error of the first of these that fails with the ConfigMap unchanged,
\* and the remote service is queried only when the read, the token and the
\* certificate were all obtained.
C31_FailureBeforeWriteBackChangesNothing ==
    [][/\ (Synchronizing /\ pc' = "select" /\ lastSync' \in ErrorsBeforeWriteBack) =>
             configMap' = configMap
       /\ (~Synchronizing /\ Synchronizing') =>
            \A getOK \in BOOLEAN, tok \in TokenAnswers, cert \in CertAnswers,
               org \in OrgAnswers, updOK \in BOOLEAN :
              LET r == syncConfigMap(configMap', getOK, tok, cert, org, updOK)
                  readBad == configMap' = NoConfigMap \/ ~getOK
                  tokenBad == tok \in {"err", ""}
                  certBad == cert = "err"
              IN
              /\ (readBad \/ tokenBad \/ certBad \/ ~org.ok) =>
                    (r.err \in ErrorsBeforeWriteBack /\ r.cm = configMap')
              /\ r.queried = ~(readBad \/ tokenBad \/ certBad)
              /\ readBad => r.err = "failed to retrieve image assurance configuration"
              /\ (~readBad /\ tok = "err") => r.err = "failed to retrieve API token"
              /\ (~readBad /\ tok = "") => r.err = "API token not available"
              /\ (~readBad /\ ~tokenBad /\ certBad) =>
                    r.err = "failed to get Image Assurance API certificate"
              /\ (~readBad /\ ~tokenBad /\ ~certBad /\ ~org.ok) =>
                    r.err = "failed to get organization settings"]_vars

\* C31 witness: a synchronization begun by a tick failed for an empty token
\* and left the setting that an earlier synchronization had written.
C31_Witness ==
    /\ pc = "select" /\ ticker # 0
    /\ lastSync = "API token not available"
    /\ configMap # NoConfigMap
    /\ "runtimeViewEnabled" \in DOMAIN configMap
    /\ configMap.runtimeViewEnabled = "true"

\* C32: once the mailbox is closed, a StartPeriodicSync or Error() call of
\* any driver free to call is a send on a closed channel: the call can be
\* made, and made it can only panic, leaving the mailbox and the waiting
\* callers as they were.  A panic has no other origin: it happens only with
\* the mailbox closed, which only the deferred close of run() does, after
\* cancellation.
C32_CallAfterCloseFaults ==
    [][/\ (apiChanClosed /\ ~panicked) =>
            \A d \in Drivers \ waiting :
               /\ ENABLED (StartPeriodicSync(d) /\ panicked')
               /\ ENABLED (ErrorCall(d) /\ panicked')
               /\ ~ENABLED (StartPeriodicSync(d) /\ ~panicked')
               /\ ~ENABLED (ErrorCall(d) /\ ~panicked')
       /\ (panicked' /\ ~panicked) =>
            /\ apiChanClosed /\ ctxDone
            /\ pc \in {"stopTicker", "returned"}
            /\ apiChan' = apiChan /\ waiting' = waiting /\ pc' = pc]_vars

\* C32 witness: a driver's call panicked while run() was still in its
\* deferred calls: the mailbox is closed and the ticker is not yet stopped.
C32_Witness ==
    /\ panicked
    /\ apiChanClosed
    /\ pc = "stopTicker"
    /\ ticker # 0 /\ tickerStops = 0

(***************************************************************************)
(* Properties of the reconciler.                                           *)
(***************************************************************************)
\* A ConfigMap or Secret of the dependency set is found and lacks a required
\* field, or holds it empty.
HasBadField(st) ==
    \E res \in DataResources :
        st[res].found /\ \E k \in Range(KeysOf(res)) : ~Has(st[res].data, k)

Degraded(rec) == \E i \in 1..Len(rec.calls) : rec.calls[i].op = "SetDegraded"

C6_WaitingForJobCreation ==
    (last.ran /\ last.jobReread /\
        (~store.migratorJob.found \/ (last.componentsUp /\ last.needsMigrating))) =>
       /\ last.migratorJob = store.migratorJob
       /\ last.calls = <<SetDegraded("Waiting for migrator job to be created", NoError)>>
       /\ status.degraded = "Waiting for migrator job to be created"
       /\ ~last.err
       /\ last.requeueAfter = 1
       /\ last.statusUpdate = "none"

\* C6 witness: the first row was taken although the job is present and has
\* succeeded.
C6_Witness ==
    /\ last.ran /\ last.jobReread
    /\ store.migratorJob.found /\ store.migratorJob.succeeded = 1
    /\ last.componentsUp /\ last.needsMigrating
    /\ last.requeueAfter = 1

\* C7 (as stated): whenever the job re-read after apply is present with zero
\* successes and zero failures, the attempt reports "Waiting for migrator
\* job to finish running", returns no error and no retry delay.
C7_WaitingForJobToFinish ==
    (last.ran /\ last.jobReread /\ store.migratorJob.found
        /\ store.migratorJob.succeeded = 0 /\ store.migratorJob.failed = 0) =>
       /\ last.calls = <<SetDegraded("Waiting for migrator job to finish running", NoError)>>
       /\ ~last.err
       /\ last.requeueAfter = 0

\* C7 (amended): the same, unless components were up and migration needed
\* (the first row of the table).
C7_WaitingForJobToFinishUnlessFirstRow ==
    (last.ran /\ last.jobReread /\ store.migratorJob.found
        /\ store.migratorJob.succeeded = 0 /\ store.migratorJob.failed = 0
        /\ ~(last.componentsUp /\ last.needsMigrating)) =>
       /\ last.calls = <<SetDegraded("Waiting for migrator job to finish running", NoError)>>
       /\ status.degraded = "Waiting for migrator job to finish running"
       /\ ~last.err
       /\ last.requeueAfter = 0

\* C7 witness: the attempt created the job and found it not finished.
C7_Witness ==
    /\ last.ran /\ last.jobReread
    /\ store.migratorJob = Job(0, 0, "migrator:v1")
    /\ <<"create", "ResourceNameImageAssuranceDBMigrator">> \in last.muts
    /\ status.degraded = "Waiting for migrator job to finish running"

\* C8 (as stated): whenever the job re-read after apply is present with zero
\* successes and at least one failure, the attempt reports "Migrator job
\* failed", returns no error and does not set ready.
C8_MigratorJobFailed ==
    (last.ran /\ last.jobReread /\ store.migratorJob.found
        /\ store.migratorJob.succeeded = 0 /\ store.migratorJob.failed >= 1) =>
       /\ last.calls = <<SetDegraded("Migrator job failed", OtherError("migrator job failed"))>>
       /\ ~last.err
       /\ last.statusUpdate = "none"

\* C8 (amended): the same, unless components were up and migration needed
\* (the first row of the table).
C8_MigratorJobFailedUnlessFirstRow ==
    (last.ran /\ last.jobReread /\ store.migratorJob.found
        /\ store.migratorJob.succeeded = 0 /\ store.migratorJob.failed >= 1
        /\ ~(last.componentsUp /\ last.needsMigrating)) =>
       /\ last.calls = <<SetDegraded("Migrator job failed", OtherError("migrator job failed"))>>
       /\ status.degraded = "Migrator job failed"
       /\ ~last.err
       /\ last.requeueAfter = 0
       /\ last.statusUpdate = "none"

\* C8 witness: a failed job, no component up.
C8_Witness ==
    /\ last.ran /\ last.jobReread
    /\ store.migratorJob.found /\ store.migratorJob.failed = 1
    /\ store.migratorJob.succeeded = 0
    /\ status.degraded = "Migrator job failed"

\* C9: an attempt that reaches the last row clears the degraded status; if
\* the StatusManager is not available it requeues after 30 seconds and
\* issues no status update, else it issues the status update with the state
\* ready (returning its error if it fails, with no requeue).
C9_LastRow ==
    (last.ran /\ last.row = "succeeded") =>
       /\ store.migratorJob.found /\ store.migratorJob.succeeded >= 1
       /\ last.calls = <<ClearDegraded>>
       /\ status.degraded = ""
       /\ IF ~status.available
          THEN last.requeueAfter = 30 /\ last.statusUpdate = "none" /\ ~last.err
          ELSE /\ last.requeueAfter = 0
               /\ last.statusUpdate \in {"Ready", "failed"}
               /\ last.statusUpdate = "Ready" => (store.iaState = "Ready" /\ ~last.err)
               /\ last.statusUpdate = "failed" => last.err

\* C9 witness: the last row with the StatusManager not available.
C9_Witness ==
    /\ last.ran /\ last.row = "succeeded"
    /\ ~status.available
    /\ store.iaState = ""
    /\ last.requeueAfter = 30

\* The second of two attempts in a row, the first of which rendered and
\* applied its change-set without any failing call.
SecondAttempt ==
    /\ last.ran /\ last.rendered /\ ~last.err
    /\ last'.ran
    /\ envChanges' = envChanges

\* C10 (as stated): the second of two attempts in a row has the same
\* rendering inputs and change-set as the first, and its apply step creates,
\* updates and deletes nothing.
C10_Idempotent ==
    [][SecondAttempt =>
          /\ last'.rendered
          /\ last'.needsMigrating = last.needsMigrating
          /\ last'.componentsUp = last.componentsUp
          /\ last'.cs = last.cs
          /\ last'.muts = {}]_vars

\* C10 (amended): the second attempt has the same NeedsMigrating; unless the
\* first attempt had NeedsMigrating and ComponentsUp both true (it then
\* deleted the components, and the second creates the job), the second
\* renders the same change-set and creates, updates and deletes nothing, and
\* its ComponentsUp is that of the first, or true when the first created the
\* components.
C10_IdempotentOnceComponentsSettled ==
    [][SecondAttempt =>
          /\ last'.rendered
          /\ last'.needsMigrating = last.needsMigrating
          /\ ~(last.needsMigrating /\ last.componentsUp) =>
                /\ last'.cs = last.cs
                /\ last'.muts = {}
                /\ last'.componentsUp = (last.componentsUp \/ last.cs.deployments)]_vars

\* C10 witness: a second attempt in a row that generated neither a password
\* nor a certificate again, changed nothing and set the state ready.
C10_Witness ==
    /\ last.nth = 2
    /\ last.rendered /\ last.muts = {}
    /\ last.cs.pgUserSecret.data["PGUserPassKey"] = "p2"
    /\ last.cs.tlsSecret = "c2"
    /\ last.statusUpdate = "Ready"

\* An attempt in which no API call fails for a reason other than NotFound.
AttemptWithoutFault == last'.ran /\ envChanges' = envChanges

\* C19: an attempt that does not find the primary resource calls
\* OnCRNotFound and nothing else on the StatusManager, returns no error and
\* no retry delay, renders and applies nothing and leaves the store as it
\* was.
C19_PrimaryAbsentIsIdle ==
    [][(store.ia = "absent" /\ AttemptWithoutFault) =>
          /\ last' = [NoAttempt EXCEPT !.ran = TRUE, !.calls = <<OnCRNotFound>>,
                                       !.nth = last'.nth]
          /\ ~last'.err /\ last'.requeueAfter = 0
          /\ ~last'.rendered /\ last'.applyCalls = 0 /\ last'.muts = {}
          /\ store' = store
          /\ status'.available = status.available
          /\ status'.degraded \in {"", status.degraded}]_vars

\* C19 witness: the attempt ended with OnCRNotFound in a store where the
\* user secret, the API certificate and the migrator job were all still to
\* be created.
C19_Witness ==
    /\ last.ran /\ store.ia = "absent"
    /\ last.calls = <<OnCRNotFound>>
    /\ ~store.pgUserSecret.found /\ store.apiCertSecret = "absent"
    /\ ~store.migratorJob.found /\ store.deployments = {}

\* The dependencies read before the internal manager TLS certificate are
\* all there.
ReachesInternalMgrSecret(st) ==
    /\ st.ia = "present" /\ st.installation = "present"
    /\ getPGConfig(st.pgConfig, FALSE).err = NoError
    /\ getOrCreatePGUserSecret(st.pgUserSecret, FALSE, "v", "p1", FALSE).err = NoError
    /\ getAdminPGUserSecret(st.pgAdminUserSecret, FALSE).err = NoError
    /\ getPGCertSecret(st.pgCertSecret, FALSE).err = NoError

\* The attempt reported a degraded status, returned no error and did not
\* set the ready state.
WaitsWith(reasons) ==
    /\ Len(last'.calls) = 1
    /\ last'.calls[1].op = "SetDegraded" /\ last'.calls[1].reason \in reasons
    /\ status'.degraded = last'.calls[1].reason
    /\ ~last'.err
    /\ last'.statusUpdate = "none"
    /\ store'.iaState = store.iaState

\* C20: an attempt that finds the installation absent, or the internal
\* manager TLS certificate absent, or the migrator job absent (when it
\* first reads it, or when it reads it again after apply) reports a degraded
\* status, returns no error and does not set the ready state.
C20_TransientAbsenceWaits ==
    [][AttemptWithoutFault =>
          /\ (store.ia = "present" /\ store.installation = "absent") =>
                WaitsWith({"Installation not found"})
          /\ (ReachesInternalMgrSecret(store) /\ store.internalMgrSecret = "absent") =>
                WaitsWith({"Waiting for internal manager tls certificate to be available"})
          /\ (last'.rendered /\ ~store.migratorJob.found) =>
                WaitsWith({"Waiting for migrator job to be created",
                           "Waiting for migrator job to finish running"})
          /\ (last'.jobReread /\ ~store'.migratorJob.found) =>
                WaitsWith({"Waiting for migrator job to be created"})]_vars

\* C20 witness: the attempt waited for the internal manager TLS certificate.
C20_Witness ==
    /\ last.ran
    /\ store.internalMgrSecret = "absent" /\ ReachesInternalMgrSecret(store)
    /\ last.calls = <<SetDegraded("Waiting for internal manager tls certificate to be available",
                                  NoError)>>
    /\ ~last.err /\ last.requeueAfter = 0

\* The attempt ended at a step before the apply step, with a degraded status.
StoppedBeforeApply == last.ran /\ ~last.rendered /\ Degraded(last)

\* C21 (as stated): every attempt that ends at a lookup before the apply
\* step returns a zero RequeueAfter.
C21_LookupFailureNoRequeue ==
    StoppedBeforeApply => last.requeueAfter = 0

\* C21 (amended): every attempt that ends at a lookup before the apply step
\* returns a zero RequeueAfter, except the one that ends at the failing
\* check of the deployments, which returns 20 seconds with its error.
C21_LookupFailureNoRequeueButComponentsUp ==
    StoppedBeforeApply =>
        /\ Len(last.calls) = 1
        /\ IF last.calls[1].reason = "Error when checking if image assurance deployments are up"
           THEN last.requeueAfter = 20 /\ last.err
           ELSE last.requeueAfter = 0

\* C21 witness: the attempt ended at the failing check of the deployments.
C21_Witness ==
    /\ StoppedBeforeApply
    /\ last.calls[1].reason = "Error when checking if image assurance deployments are up"
    /\ last.err /\ last.requeueAfter = 20
    /\ store.deployments = DeploymentNames

\* C22 (as stated): an attempt that returns an error has called SetDegraded
\* and the degraded status is set when it returns.
C22_ErrorImpliesDegraded ==
    (last.ran /\ last.err) => (Degraded(last) /\ status.degraded # "")

\* The causes Reconcile can report with SetDegraded, in the order of the
\* steps that report them.  The job is read twice with the same cause: the
\* second reading, after apply, is the entry "(after apply)".
CauseOrder ==
    <<"Error querying for ImageAssurance",
      "Error querying installation",
      "Installation not found",
      "Error retrieving image pull secrets",
      "Error retrieving postgres configuration",
      "Error retrieving postgres secret",
      "Error retrieving postgres admin secret",
      "Error retrieving postgres cert secret",
      "Error retrieving internal manager tls secret",
      "Waiting for internal manager tls certificate to be available",
      "Error in ensuring TLS certificate for image-assurance api",
      "Error retrieving db-migrator job",
      "Error retrieving image set",
      "Error validating image set",
      "Error retrieving tenant key",
      "Error calculating if migration is needed",
      "Error when checking if image assurance deployments are up",
      "Error querying Authentication",
      "Authentication is not ready",
      "Failed to process the authentication CR.",
      "Error with images from ImageSet",
      "Error creating / updating resource",
      "Error retrieving db-migrator job (after apply)",
      "Waiting for migrator job to be created",
      "Waiting for migrator job to finish running",
      "Migrator job failed">>

NoCause == Len(CauseOrder) + 1
StepOf(reason) == CHOOSE i \in 1..Len(CauseOrder) : CauseOrder[i] = reason

\* The step at which the attempt recorded in rec reported its cause.
ReportedStep(rec) ==
    IF ~Degraded(rec) THEN NoCause
    ELSE IF rec.rendered /\ rec.calls[1].reason = "Error retrieving db-migrator job"
    THEN StepOf("Error retrieving db-migrator job (after apply)")
    ELSE StepOf(rec.calls[1].reason)

\* Whether a ConfigMap or Secret is found with all its keys set.
Usable(obj, keys) == obj.found /\ \A k \in Range(keys) : Has(obj.data, k)

\* The steps that fail because of what the store holds.
StoreFailures(st) ==
    {StepOf("Installation not found") : x \in {1} \cap {IF st.installation = "absent" THEN 1 ELSE 0}}
    \cup {StepOf("Error retrieving postgres configuration") :
             x \in {1} \cap {IF Usable(st.pgConfig, PGConfigKeys) THEN 0 ELSE 1}}
    \cup {StepOf("Error retrieving postgres secret") :
             x \in {1} \cap {IF st.pgUserSecret.found /\ ~Usable(st.pgUserSecret, PGUserKeys)
                             THEN 1 ELSE 0}}
    \cup {StepOf("Error retrieving postgres admin secret") :
             x \in {1} \cap {IF Usable(st.pgAdminUserSecret, PGUserKeys) THEN 0 ELSE 1}}
    \cup {StepOf("Error retrieving postgres cert secret") :
             x \in {1} \cap {IF Usable(st.pgCertSecret, PGCertKeys) THEN 0 ELSE 1}}
    \cup {StepOf("Error retrieving internal manager tls secret") :
             x \in {1} \cap {IF st.internalMgrSecret = "invalid" THEN 1 ELSE 0}}
    \cup {StepOf("Waiting for internal manager tls certificate to be available") :
             x \in {1} \cap {IF st.internalMgrSecret = "absent" THEN 1 ELSE 0}}
    \cup {StepOf("Error in ensuring TLS certificate for image-assurance api") :
             x \in {1} \cap {IF st.apiCertSecret = "invalid" THEN 1 ELSE 0}}
    \cup {StepOf("Error retrieving tenant key") :
             x \in {1} \cap {IF Usable(st.tenantKey, TenantKeys) THEN 0 ELSE 1}}
    \cup {StepOf("Authentication is not ready") :
             x \in {1} \cap {IF st.authentication = "NotReady" THEN 1 ELSE 0}}

FirstStoreFailure(st) ==
    IF StoreFailures(st) = {} THEN NoCause
    ELSE CHOOSE i \in StoreFailures(st) : \A j \in StoreFailures(st) : i <= j

\* C23: an attempt on a present primary resource reports one cause, that of
\* the first step that fails: no step that the store makes fail comes
\* before the reported one, and when no call fails for another reason the
\* reported step is the first the store makes fail.  No later step has run:
\* an attempt stopped before the apply step changed nothing; one stopped by
\* a failing apply call did not apply the components after it, did not read
\* the job again, did not clear the degraded status and did not set ready.
C23_StopsAtFirstFailure ==
    [][(last'.ran /\ store.ia = "present") =>
         LET rec == last'
             step == ReportedStep(rec)
         IN
         /\ Degraded(rec) => (Len(rec.calls) = 1 /\ rec.statusUpdate = "none"
                                /\ store'.iaState = store.iaState)
         /\ step <= FirstStoreFailure(store)
         /\ envChanges' = envChanges =>
               (FirstStoreFailure(store) # NoCause => step = FirstStoreFailure(store))
         /\ step < StepOf("Error creating / updating resource") =>
               /\ rec.applyCalls = 0 /\ rec.muts = {} /\ ~rec.jobReread /\ rec.row = ""
               /\ store' = store
         /\ step = StepOf("Error creating / updating resource") =>
               /\ rec.applyCalls \in {0, 1} /\ ~rec.jobReread /\ rec.row = ""
               /\ rec.applyCalls = 0 => (store' = store /\ rec.muts = {})
               /\ store'.migratorJob = store.migratorJob
               /\ store'.deployments = store.deployments
               /\ store'.pgUserSecret = store.pgUserSecret
         /\ step = StepOf("Error retrieving db-migrator job (after apply)") =>
               (rec.applyCalls = 2 /\ ~rec.jobReread /\ rec.row = "")
         /\ step > StepOf("Error retrieving db-migrator job (after apply)") =>
               (rec.applyCalls = 2 /\ rec.jobReread)]_vars

\* C23 witness: the second CreateOrUpdateOrDelete call failed after the
\* first had created the API certificate secret; the job was absent and is
\* still absent, and no component was created.
C23_Witness ==
    /\ last.ran
    /\ last.calls = <<SetDegraded("Error creating / updating resource",
                                  OtherError("CreateOrUpdateOrDelete2"))>>
    /\ last.applyCalls = 1
    /\ last.muts = {<<"create", "APICertSecretName">>}
    /\ ~store.migratorJob.found /\ store.deployments = {}
    /\ ~last.jobReread /\ last.statusUpdate = "none"

\* The attempt reached the resolution of the user secret: the primary
\* resource, the installation and a usable postgres configuration exist.
ReachesPGUserSecret(st) ==
    /\ st.ia = "present" /\ st.installation = "present"
    /\ Usable(st.pgConfig, PGConfigKeys)

\* C24: resolving the user secret is idempotent.  A stored secret with both
\* fields set is the one handed to the renderer and is left in the store as
\* it was; a stored secret lacking a field is reported as an error of that
\* field and nothing is written; a credential is generated (user name from
\* the organization id, a random password) only when no secret is stored,
\* and resolving again once it is stored returns it unchanged.
C24_UserSecretIdempotent ==
    [][(last'.ran /\ ReachesPGUserSecret(store)) =>
         LET us == store.pgUserSecret
             rec == last'
         IN
         /\ (us.found /\ Usable(us, PGUserKeys)) =>
               /\ store'.pgUserSecret = us
               /\ rec.rendered => rec.cs.pgUserSecret = us
               /\ \A m \in rec.muts : m[2] # "PGUserSecretName"
         /\ (us.found /\ ~Usable(us, PGUserKeys)) =>
               /\ rec.calls = <<SetDegraded("Error retrieving postgres secret",
                                   FieldError("PGUserSecretName",
                                              FirstBad(us.data, PGUserKeys)))>>
               /\ rec.err /\ ~rec.rendered
               /\ store' = store
         /\ (~us.found /\ rec.rendered) =>
               /\ rec.cs.pgUserSecret.found
               /\ rec.cs.pgUserSecret.data["PGUserSecretKey"]
                     = UserName(store.pgConfig.data["PGConfigOrgIDKey"])
               /\ rec.cs.pgUserSecret.data["PGUserPassKey"] \in Passwords
               /\ \A pass \in Passwords :
                     getOrCreatePGUserSecret(rec.cs.pgUserSecret, FALSE,
                         store.pgConfig.data["PGConfigOrgIDKey"], pass, FALSE)
                       = [err |-> NoError, val |-> rec.cs.pgUserSecret]
         /\ rec.cs.pgUserSecret.found /\ ~Usable(us, PGUserKeys) => ~us.found]_vars

\* C24 witness: the second attempt found the credential the first one had
\* generated and stored, handed it to the renderer and wrote nothing.
C24_Witness ==
    /\ last.ran /\ last.nth = 2 /\ last.rendered
    /\ store.pgUserSecret.found
    /\ store.pgUserSecret.data["PGUserSecretKey"] = "v_user"
    /\ store.pgUserSecret.data["PGUserPassKey"] \in Passwords
    /\ last.cs.pgUserSecret = store.pgUserSecret
    /\ \A m \in last.muts : m[2] # "PGUserSecretName"

\* The storage of the controller test: the primary resource, the
\* installation, the user secret, the manager certificate secret, the
\* postgres certificate secret and a postgres ConfigMap with the keys host,
\* name and port and no other; no admin secret and no tenant key.
TestScenario(st) ==
    /\ st.ia = "present" /\ st.installation = "present"
    /\ Usable(st.pgUserSecret, PGUserKeys)
    /\ st.internalMgrSecret = "valid"
    /\ Usable(st.pgCertSecret, PGCertKeys)
    /\ st.pgConfig.found
    /\ \A k \in Range(PGConfigKeys) :
          IF k \in {"PGConfigHostKey", "PGConfigNameKey", "PGConfigPortKey"}
          THEN Has(st.pgConfig.data, k)
          ELSE st.pgConfig.data[k] = Missing
    /\ ~st.pgAdminUserSecret.found
    /\ ~st.tenantKey.found

\* C25: from the storage of the controller test a Reconcile attempt returns
\* no error and has created the API deployment and the scanner deployment.
C25_TestScenarioRenders ==
    (last.ran /\ TestScenario(store)) =>
        /\ ~last.err
        /\ {"ResourceNameImageAssuranceAPI", "ResourceNameImageAssuranceScanner"}
              \subseteq store.deployments

\* C26: the state of the primary resource is written only by a Reconcile
\* attempt, only as ready, and only in an attempt in which no dependency
\* gate failed, both apply calls were made, the job read again after the
\* apply step is present with at least one success, the StatusManager is
\* available and no degraded status was reported.
C26_ReadyOnlyAfterMigration ==
    [][(store'.iaState # store.iaState \/ (last'.ran /\ last'.statusUpdate = "Ready")) =>
         /\ last'.ran
         /\ store'.iaState = "Ready" /\ last'.statusUpdate = "Ready"
         /\ FirstStoreFailure(store) = NoCause
         /\ last'.rendered /\ last'.applyCalls = 2
         /\ last'.jobReread
         /\ last'.migratorJob = store'.migratorJob
         /\ store'.migratorJob.found /\ store'.migratorJob.succeeded >= 1
         /\ status.available /\ status'.available
         /\ ~Degraded(last') /\ status'.degraded = ""
         /\ ~last'.err]_vars

\* C26 witness: an attempt set the state ready; the job it read again has
\* one success and the attempt made no SetDegraded call.
C26_Witness ==
    /\ last.ran /\ last.statusUpdate = "Ready"
    /\ store.iaState = "Ready"
    /\ last.applyCalls = 2 /\ last.jobReread
    /\ last.migratorJob.succeeded = 1
    /\ status.available
    /\ last.calls = <<ClearDegraded>>

\* Whether any image assurance deployment exists in the store st, and
\* whether the job of st leaves a migration to run.
AnyDeployment(st) == st.deployments \cap DeploymentNames # {}
MigrationPending(st) ==
    \/ ~st.migratorJob.found
    \/ st.migratorJob.succeeded = 0
    \/ st.migratorJob.image # GetReference(st.imageSet)

\* C27 (as stated): in an attempt that read the job again after the apply
\* step, NeedsMigrating and ComponentsUp are those of the store as the apply
\* step left it.
C27_FlagsComputedAfterApply ==
    (last.ran /\ last.jobReread) =>
        /\ last.componentsUp = AnyDeployment(store)
        /\ last.needsMigrating = MigrationPending(store)

\* C27 (amended): in an attempt that read the job again after the apply
\* step, NeedsMigrating and ComponentsUp are those of the store as it was
\* before the apply step; only the job record is read again, and the row
\* of the decision table is taken from that record and those two values.
C27_FlagsComputedBeforeApply ==
    [][(last'.ran /\ last'.jobReread) =>
         /\ last'.componentsUp = AnyDeployment(store)
         /\ last'.needsMigrating = MigrationPending(store)
         /\ last'.migratorJob = store'.migratorJob
         /\ last'.row = DecisionRow(store'.migratorJob, AnyDeployment(store),
                                    MigrationPending(store))]_vars

\* C27 witness: the attempt created the three deployments in its apply step
\* and took the last row of the table with ComponentsUp false.
C27_Witness ==
    /\ last.ran /\ last.jobReread
    /\ ~last.componentsUp
    /\ store.deployments = DeploymentNames
    /\ \A d \in DeploymentNames : <<"create", d>> \in last.muts
    /\ last.row = "succeeded"

\* C33: the NeedsMigrating of an attempt that reached the render step is
\* true exactly when the job it found is absent, or has zero successes, or
\* records an image other than the one the image set implies; it is false
\* exactly when the job is present with at least one success and that same
\* image; and the job's failure counter does not change the answer.
C33_NeedsMigratingExactly ==
    [][(last'.ran /\ last'.rendered) =>
         LET job == store.migratorJob
             ref == GetReference(store.imageSet)
         IN
         /\ last'.needsMigrating = (~job.found \/ job.succeeded = 0 \/ job.image # ref)
         /\ ~last'.needsMigrating = (job.found /\ job.succeeded >= 1 /\ job.image = ref)
         /\ \A fl \in 0..1 :
               needsMigrating(ref, [job EXCEPT !.failed = fl]) = last'.needsMigrating]_vars

\* C33 witness: an attempt decided that no migration is needed for a job
\* with one success and one failure whose image is the one implied.
C33_Witness ==
    /\ last.ran /\ last.rendered
    /\ ~last.needsMigrating
    /\ store.migratorJob.found
    /\ store.migratorJob.succeeded = 1 /\ store.migratorJob.failed = 1
    /\ store.migratorJob.image = GetReference(store.imageSet)

\* The calls of one kind that an attempt made on the StatusManager.
CallsOf(rec, op) == {i \in 1..Len(rec.calls) : rec.calls[i].op = op}

\* C34: an attempt makes at most one SetDegraded call and never both a
\* SetDegraded and a ClearDegraded call; it calls ClearDegraded only when no
\* dependency gate fails, both apply calls were made and the job read again
\* has at least one success, and then it is its only call; an attempt that
\* does not find the primary resource calls OnCRNotFound and neither of the
\* two.
C34_StatusSignalsExclusive ==
    last.ran =>
        /\ Cardinality(CallsOf(last, "SetDegraded")) <= 1
        /\ Cardinality(CallsOf(last, "ClearDegraded")) <= 1
        /\ CallsOf(last, "SetDegraded") = {} \/ CallsOf(last, "ClearDegraded") = {}
        /\ CallsOf(last, "ClearDegraded") # {} =>
              /\ last.calls = <<ClearDegraded>>
              /\ FirstStoreFailure(store) = NoCause
              /\ last.rendered /\ last.applyCalls = 2 /\ last.jobReread
              /\ last.row = "succeeded"
              /\ last.migratorJob.found /\ last.migratorJob.succeeded >= 1
              /\ status.degraded = ""
        /\ CallsOf(last, "OnCRNotFound") # {} =>
              (store.ia = "absent" /\ last.calls = <<OnCRNotFound>>)
        /\ (store.ia = "absent" /\ ~last.err) => last.calls = <<OnCRNotFound>>
        /\ Len(last.calls) = 1

\* C34 witness: an attempt whose one call is ClearDegraded and whose
\* status update then failed: it returned an error and made no SetDegraded
\* call.
C34_Witness ==
    /\ last.ran
    /\ last.calls = <<ClearDegraded>>
    /\ last.statusUpdate = "failed" /\ last.err
    /\ last.row = "succeeded"
    /\ status.degraded = ""

\* For the cause reported when a getter of the dependency set fails: the
\* resource of the store that getter reads and the name of that resource.
GetterOfCause ==
    [c \in {"Error retrieving postgres configuration", "Error retrieving postgres secret",
            "Error retrieving postgres admin secret",
            "Error retrieving postgres cert secret", "Error retrieving tenant key"} |->
       CASE c = "Error retrieving postgres configuration" ->
                [res |-> "pgConfig", name |-> "PGConfigMapName"]
         [] c = "Error retrieving postgres secret" ->
                [res |-> "pgUserSecret", name |-> "PGUserSecretName"]
         [] c = "Error retrieving postgres admin secret" ->
                [res |-> "pgAdminUserSecret", name |-> "PGAdminUserSecretName"]
         [] c = "Error retrieving postgres cert secret" ->
                [res |-> "pgCertSecret", name |-> "PGCertSecretName"]
         [] c = "Error retrieving tenant key" ->
                [res |-> "tenantKey", name |-> "TenantKeyName"]]

\* C35: when an attempt is degraded because a resource that was found lacks
\* a required field, the error given as the detail names the resource the
\* failing getter read and a field which that resource lacks.
C35_FieldErrorNamesResource ==
    (last.ran /\ Degraded(last) /\ last.calls[1].detail.kind = "expected field") =>
        LET call == last.calls[1] IN
        /\ call.reason \in DOMAIN GetterOfCause
        /\ call.detail.resource = GetterOfCause[call.reason].name
        /\ store[GetterOfCause[call.reason].res].found
        /\ call.detail.field \in Range(KeysOf(GetterOfCause[call.reason].res))
        /\ ~Has(store[GetterOfCause[call.reason].res].data, call.detail.field)

====
